---- MODULE Spec2Model ----
(***************************************************************************)
(* The usage-tracking and limit-enforcement loop of utils/check_usage.py:  *)
(* the session snapshot ACTIVE_USERS, the streak table IP_STREAKS, one     *)
(* cycle of check_users_usage and the scheduler run_check_users_usage.     *)
(*                                                                         *)
(* A Python dict is a function whose DOMAIN is its key set.  The insertion *)
(* order of a dict's keys is not kept: a loop over a dict visits its keys  *)
(* in some order, and every order is explored.                             *)
(*                                                                         *)
(* The coroutine runs without interruption between two awaits; the         *)
(* session-snapshot provider may write into ACTIVE_USERS only while the    *)
(* coroutine is suspended at an await (the program counters of AwaitPcs).  *)
(***************************************************************************)
EXTENDS Integers, Sequences, FiniteSets, TLC

\* ------------------------------------------------------------- bounds ----
Users == {"alice", "bob"}
IPs == {"1.1.1.1", "3.3.3.3"}
Limits == {1, 2}
\* longest raw IP occurrence list of one user in the snapshot
MaxRaw == 2
\* cycles of run_check_users_usage that are started
MaxCycles == 3
\* SpecSnapshot: longest raw IP occurrence list of one user
MaxRawList == 3
\* SpecChunks: most report blocks _format_streak_messages has returned
MaxBlocks == 125
\* SpecPlurals: greatest streak count in the table
MaxStreak == 115
\* SpecLive, SpecRetry: cycles of run_check_users_usage that are started
MaxLive == 2
\* SpecReappear: the streak an IP has reached before it goes missing
MaxGone == 3
\* SpecUpdate: most streak updates that have run before the one checked
MaxUpdates == 2
\* SpecSendLogs: most admins in the admin list
MaxAdmins == 3

\* ---------------------------------------------------------- variables ----
VARIABLES
    pc,             \* position of the run_check_users_usage coroutine
    ACTIVE_USERS,   \* user -> raw IP occurrence list (UserType.ip)
    IP_STREAKS,     \* user -> (ip -> streak)
    config_data,    \* check_users_usage: the configuration read at line 111
    all_users_log,  \* check_users_usage: the result of check_ip_used
    messages,       \* check_users_usage: report blocks plus the summary line
    chunk_i,        \* check_users_usage: index of the next chunk to dispatch
    todo,           \* keys of IP_STREAKS the loop of line 133 has yet to visit
    user_name,      \* the user the loop of line 133 is at
    calls,          \* calls made to send_logs / disable_user in this cycle
    nCycles,        \* streak updates run since process start
    runs,           \* history: user -> ip -> the consecutive cycles, up to the
                    \* latest one, in which ip was in the user's active set
    ended,          \* history: the length of the longest run that the streak
                    \* update of this cycle ended (0: it ended none)
    error,          \* the exception that ended the coroutine ("": none)
    admins,         \* send_logs of telegram_bot/main.py: the admin list
    admin_i,        \* send_logs of telegram_bot/main.py: index of the loop
    config_json,    \* telegram_bot/main.py: the document config.json that the
                    \* helpers of telegram_bot.utils read and write
    conversations,  \* chat -> ConversationHandler -> the state of the chat's
                    \* conversation ("None": no conversation)
    user_data,      \* chat -> context.user_data
    update,         \* history: the update handled last: its chat and text,
                    \* the handler that ran, what it returned, its replies,
                    \* its calls of helpers and config.json as it was before
    received        \* history: chat -> the steps and texts of the chat's
                    \* latest create_config conversation

vars == <<pc, ACTIVE_USERS, IP_STREAKS, config_data, all_users_log, messages,
          chunk_i, todo, user_name, calls, nCycles, runs, ended, error,
          admins, admin_i, config_json, conversations, user_data, update,
          received>>

\* the variables of send_logs of telegram_bot/main.py
sendVars == <<admins, admin_i>>

\* the variables of the command handlers of telegram_bot/main.py
botVars == <<config_json, conversations, user_data, update, received>>

\* the variables of utils/check_usage.py and of send_logs
cycleVars == <<pc, ACTIVE_USERS, IP_STREAKS, config_data, all_users_log, messages,
               chunk_i, todo, user_name, calls, nCycles, runs, ended, error,
               admins, admin_i>>

\* -------------------------------------------------------- dict helpers ---
EmptyDict == [k \in {} |-> 0]

\* d.get(k, default)
Get(d, k, default) == IF k \in DOMAIN d THEN d[k] ELSE default

\* d restricted to the keys in K (the keys not in K deleted)
Restrict(d, K) == [k \in DOMAIN d \cap K |-> d[k]]

\* set(ips)
ToSet(s) == {s[i] : i \in 1..Len(s)}

\* ip in streaks[u]
HasKey(streaks, u, ip) == u \in DOMAIN streaks /\ ip \in DOMAIN streaks[u]

\* the lists of a list of lists, joined
RECURSIVE Flatten(_)
Flatten(seqs) == IF seqs = <<>> THEN <<>> ELSE Head(seqs) \o Flatten(Tail(seqs))

\* ------------------------------------------------------ pure functions ---
\* (mutant: the test of n mod 100 in 11..14 left out)
ru_plurals_logs_NoTeens(n) ==
    LET n_abs == IF n < 0 THEN -n ELSE n
        last == n_abs % 10
    IN  IF last = 1 THEN "log"
        ELSE IF 2 <= last /\ last <= 4 THEN "loga"
        ELSE "logov"

\* _ru_plurals_logs(n): the three word forms are written in Latin letters:
\* "log" (singular), "loga" (plural, 2..4), "logov" (plural genitive)
ru_plurals_logs(n) ==
    LET n_abs == IF n < 0 THEN -n ELSE n
        last == n_abs % 10
    IN  IF 11 <= (n_abs % 100) /\ (n_abs % 100) <= 14 THEN "logov"
        ELSE IF last = 1 THEN "log"
        ELSE IF 2 <= last /\ last <= 4 THEN "loga"
        ELSE "logov"

\* (mutant: a key that is already there moves to the end)
RECURSIVE FromKeys_MoveToEnd(_, _)
FromKeys_MoveToEnd(ips, keys) ==
    IF ips = <<>> THEN keys
    ELSE FromKeys_MoveToEnd(Tail(ips),
             Append(SelectSeq(keys, LAMBDA k : k # Head(ips)), Head(ips)))

\* list(dict.fromkeys(ips)): the keys of a dict filled in list order, a key
\* that is already there keeping its place
RECURSIVE FromKeys(_, _)
FromKeys(ips, keys) ==
    IF ips = <<>> THEN keys
    ELSE FromKeys(Tail(ips),
                  IF Head(ips) \in ToSet(keys) THEN keys
                  ELSE Append(keys, Head(ips)))

unique_ips(ips) == FromKeys(ips, <<>>)

\* check_ip_used(): email -> unique IPs, for every key of ACTIVE_USERS
check_ip_used(active_users) ==
    [email \in DOMAIN active_users |-> unique_ips(active_users[email])]

\* (mutant: an active IP gets streak 1 whatever its streak was)
IncrementActive_SetOne(entry, curr_set) ==
    [ip \in DOMAIN entry \cup curr_set |->
        IF ip \in curr_set THEN 1 ELSE entry[ip]]

\* _update_ip_streaks, the body of the loop of line 61 for one user:
\* IP_STREAKS[user] (a defaultdict: an empty dict when the user is new)
\* with the active IPs incremented (line 65) and the stale IPs deleted
\* (lines 68..70)
IncrementActive(entry, curr_set) ==
    [ip \in DOMAIN entry \cup curr_set |->
        IF ip \in curr_set THEN Get(entry, ip, 0) + 1 ELSE entry[ip]]

\* (mutant: the streak of a stale IP is set to 0)
DeleteStaleIps_Zero(entry, curr_set) ==
    [ip \in DOMAIN entry |-> IF ip \in curr_set THEN entry[ip] ELSE 0]

\* (mutant: the stale IPs are kept)
DeleteStaleIps_Keep(entry, curr_set) == entry

DeleteStaleIps(entry, curr_set) ==
    Restrict(entry, {ip \in DOMAIN entry : ip \in curr_set})

UpdateUser(streaks, user, ips) ==
    LET curr_set == ToSet(ips)
    IN  DeleteStaleIps(IncrementActive(Get(streaks, user, EmptyDict), curr_set),
                       curr_set)

\* _update_ip_streaks, part 1: every user of current_active gets an entry
\* (line 68 reads IP_STREAKS[user] also when ips is empty); the users that
\* are not in current_active keep theirs
UpdateActiveUsers(streaks, current_active) ==
    [user \in DOMAIN streaks \cup DOMAIN current_active |->
        IF user \in DOMAIN current_active
        THEN UpdateUser(streaks, user, current_active[user])
        ELSE streaks[user]]

\* (mutant: the stale users are kept)
DeleteStaleUsers_Keep(streaks, current_active) == streaks

\* _update_ip_streaks, part 2: the users that are not in current_active
\* are deleted
DeleteStaleUsers(streaks, current_active) ==
    Restrict(streaks, {u \in DOMAIN streaks : u \in DOMAIN current_active})

update_ip_streaks(streaks, current_active) ==
    DeleteStaleUsers(UpdateActiveUsers(streaks, current_active), current_active)

\* (mutant: the raw lists are passed on as they are and line 64 runs over the
\* list, so that a streak is raised once for every occurrence)
StreaksAfterCycle_PerOccurrence(streaks, active_users) ==
    [user \in DOMAIN active_users |->
        [ip \in ToSet(active_users[user]) |->
            Get(Get(streaks, user, EmptyDict), ip, 0)
                + Cardinality({i \in 1..Len(active_users[user]) :
                                  active_users[user][i] = ip})]]

\* lines 112..115: the table after _update_ip_streaks(check_ip_used())
StreaksAfterCycle(streaks, active_users) ==
    update_ip_streaks(streaks, check_ip_used(active_users))

\* (mutant: reverse=True left out)
SortedDesc_Ascending(key) ==
    LET S == DOMAIN key
    IN  {s \in [1..Cardinality(S) -> S] :
            \A i, j \in 1..Cardinality(S) :
                i < j => s[i] # s[j] /\ key[s[i]] <= key[s[j]]}

\* sorted(..., key=..., reverse=True) of the keys of the function key: the
\* orders in which key never increases (the order of equal keys is the
\* dict's, which is not kept)
SortedDesc(key) ==
    LET S == DOMAIN key
    IN  {s \in [1..Cardinality(S) -> S] :
            \A i, j \in 1..Cardinality(S) :
                i < j => s[i] # s[j] /\ key[s[i]] >= key[s[j]]}

\* one block of _format_streak_messages: the header's user and count, and a
\* line per IP (lines 96..102)
BlockOf(user, ip_map, ips_sorted) ==
    [kind |-> "block", user |-> user, count |-> Len(ips_sorted),
     lines |-> [i \in 1..Len(ips_sorted) |->
                  [ip |-> ips_sorted[i], streak |-> ip_map[ips_sorted[i]],
                   word |-> ru_plurals_logs(ip_map[ips_sorted[i]])]]]

\* the loop of line 92: users with an empty ip_map are skipped
BlocksOf(streaks, users_sorted, ips_sorted) ==
    LET kept == SelectSeq(users_sorted, LAMBDA u : DOMAIN streaks[u] # {})
    IN  [i \in 1..Len(kept) |->
            BlockOf(kept[i], streaks[kept[i]], ips_sorted[kept[i]])]

\* _format_streak_messages(): the block lists it can return
format_streak_messages(streaks) ==
    LET users_orders ==
            SortedDesc([u \in DOMAIN streaks |-> Cardinality(DOMAIN streaks[u])])
        ips_orders(u) == SortedDesc(streaks[u])
        ips_choices ==
            {f \in [DOMAIN streaks -> UNION {ips_orders(u) : u \in DOMAIN streaks}] :
                \A u \in DOMAIN streaks : f[u] \in ips_orders(u)}
    IN  {BlocksOf(streaks, us, f) : us \in users_orders, f \in ips_choices}

\* sum(len(v) for v in IP_STREAKS.values()): the number of (user, ip) pairs
\* of the table
total_ips(streaks) ==
    Cardinality(UNION {{<<u, ip>> : ip \in DOMAIN streaks[u]} : u \in DOMAIN streaks})

\* (mutant: no summary line when there is no block)
WithSummary_OnlyIfBlocks(blocks, total) ==
    IF blocks = <<>> THEN blocks
    ELSE Append(blocks, [kind |-> "summary", total |-> total])

\* line 120: the summary line appended to the blocks
WithSummary(blocks, total) == Append(blocks, [kind |-> "summary", total |-> total])

\* what the record of calls keeps of a dispatched chunk: of each block its
\* user, of the summary line its total
Header(m) == IF m.kind = "block" THEN [user |-> m.user] ELSE [total |-> m.total]

Headers(chunk) == [i \in 1..Len(chunk) |-> Header(chunk[i])]

\* the 50 of line 123
ChunkSize == 50

\* (mutant: the slice takes the element at j too)
Slice_Inclusive(msgs, i, j) ==
    IF i >= Len(msgs) THEN <<>>
    ELSE SubSeq(msgs, i + 1, IF j + 1 < Len(msgs) THEN j + 1 ELSE Len(msgs))

\* messages[i : j]
Slice(msgs, i, j) ==
    IF i >= Len(msgs) THEN <<>>
    ELSE SubSeq(msgs, i + 1, IF j < Len(msgs) THEN j ELSE Len(msgs))

\* line 123: one slice for every i of range(0, len(messages), 50)
shorter_messages(msgs) ==
    [k \in 1..((Len(msgs) + ChunkSize - 1) \div ChunkSize) |->
        Slice(msgs, (k - 1) * ChunkSize, (k - 1) * ChunkSize + ChunkSize)]

\* -------------------------------------------------------- configuration --
\* read_config(): the limit configuration, with GENERAL_LIMIT present or not
\* (the configurations tried: nobody exempt, and no override or an override
\* for alice that differs from the general limit; alice exempt and no
\* override; without GENERAL_LIMIT, alice exempt or alice with the override 1)
ExceptChoices == {{}, {"alice"}}

SpecialLimits == {EmptyDict} \cup {[u \in {"alice"} |-> l] : l \in Limits}

Configs ==
    {c \in [EXCEPT_USERS : ExceptChoices, SPECIAL_LIMIT : SpecialLimits,
            GENERAL_LIMIT : Limits] :
        /\ \A u \in DOMAIN c.SPECIAL_LIMIT : c.SPECIAL_LIMIT[u] # c.GENERAL_LIMIT
        /\ c.EXCEPT_USERS # {} => c.SPECIAL_LIMIT = EmptyDict}
    \cup {c \in [EXCEPT_USERS : ExceptChoices, SPECIAL_LIMIT : SpecialLimits] :
        /\ \A u \in DOMAIN c.SPECIAL_LIMIT : c.SPECIAL_LIMIT[u] = 1
        /\ c.EXCEPT_USERS = {} <=> c.SPECIAL_LIMIT # EmptyDict}

\* read_config() at line 159: the configuration with CHECK_INTERVAL present
\* or not
Reloads == {EmptyDict, [CHECK_INTERVAL |-> 1]}

\* (mutant: config.get(key, 1) in the place of the subscript)
Subscript_Get(config, key) == [raised |-> FALSE, value |-> Get(config, key, 1)]

\* config[key] (lines 131 and 160): the value, or KeyError raised
Subscript(config, key) ==
    IF key \in DOMAIN config
    THEN [raised |-> FALSE, value |-> config[key]]
    ELSE [raised |-> TRUE, value |-> 0]

KeyError(key) == "KeyError: " \o key

\* line 136: int(special_limit.get(user_name, limit_number)), limit_number
\* being the config_data["GENERAL_LIMIT"] of line 131
user_limit_number(config, user) ==
    Get(config.SPECIAL_LIMIT, user, Subscript(config, "GENERAL_LIMIT").value)

\* (mutant: a user is flagged only for an IP that is new in this cycle)
IsFlagged_NewIpOnly(config, user, ip_map) ==
    /\ user \notin config.EXCEPT_USERS
    /\ Cardinality(DOMAIN ip_map) > user_limit_number(config, user)
    /\ \E ip \in DOMAIN ip_map : ip_map[ip] = 1

\* (mutant: a count equal to the limit is flagged too)
IsFlagged_AtLimit(config, user, ip_map) ==
    /\ user \notin config.EXCEPT_USERS
    /\ Cardinality(DOMAIN ip_map) >= user_limit_number(config, user)

\* (mutant: the exempt users are not passed over)
IsFlagged_NoExempt(config, user, ip_map) ==
    Cardinality(DOMAIN ip_map) > user_limit_number(config, user)

\* lines 134..139: the user is over the limit and not exempt
IsFlagged(config, user, ip_map) ==
    /\ user \notin config.EXCEPT_USERS
    /\ Cardinality(DOMAIN ip_map) > user_limit_number(config, user)

\* ---------------------------------------------------------------- state --
\* the positions at which the coroutine is suspended at an await
AwaitPcs == {"read_config", "send_logs", "warn", "disable", "reload", "sleep"}

\* the other positions: "returned" (check_users_usage has just returned to
\* line 158) and "crashed" (an exception has ended the coroutine)

\* nothing has raised, and send_logs of telegram_bot/main.py is not running
NoSend ==
    /\ error = ""
    /\ admins = <<>>
    /\ admin_i = 0

\* no update has been handled by the bot, and no config.json is written
NoBot ==
    /\ config_json = EmptyDict
    /\ conversations = EmptyDict
    /\ user_data = EmptyDict
    /\ update = EmptyDict
    /\ received = EmptyDict

\* the locals of check_users_usage before the call and after its return
NoLocals ==
    /\ config_data = EmptyDict
    /\ all_users_log = EmptyDict
    /\ messages = <<>>
    /\ chunk_i = 0
    /\ todo = {}
    /\ user_name = ""
    /\ calls = <<>>

\* ip is in the user's active set of the snapshot: it occurs in the raw list
InActiveSet(snapshot, u, ip) ==
    u \in DOMAIN snapshot /\ \E i \in 1..Len(snapshot[u]) : snapshot[u][i] = ip

NoRuns == [u \in Users |-> [ip \in IPs |-> 0]]

\* the longest of the runs r that a cycle reading the snapshot ends
LongestEnded(r, snapshot) ==
    LET gone == {p \in Users \X IPs : ~InActiveSet(snapshot, p[1], p[2])}
        lens == {0} \cup {r[p[1]][p[2]] : p \in gone}
    IN  CHOOSE n \in lens : \A m \in lens : m <= n

\* module load: both tables empty, run_check_users_usage about to start
Init ==
    /\ pc = "read_config"
    /\ ACTIVE_USERS = EmptyDict
    /\ IP_STREAKS = EmptyDict
    /\ nCycles = 0
    /\ NoLocals
    /\ runs = NoRuns
    /\ ended = 0
    /\ NoSend
    /\ NoBot

\* ---------------------------------------------------- snapshot provider --
\* the external collaborator that fills ACTIVE_USERS: it records one more
\* IP occurrence for a user, or a user without any IP (users: the users
\* that have sessions)
ProviderAddIpFor(users) ==
    /\ pc \in AwaitPcs
    /\ \E u \in users, ip \in IPs :
          /\ Len(Get(ACTIVE_USERS, u, <<>>)) < MaxRaw
          /\ ACTIVE_USERS' =
                [k \in DOMAIN ACTIVE_USERS \cup {u} |->
                    IF k = u THEN Append(Get(ACTIVE_USERS, u, <<>>), ip)
                    ELSE ACTIVE_USERS[k]]
    /\ UNCHANGED <<pc, IP_STREAKS, config_data, all_users_log, messages,
                   chunk_i, todo, user_name, calls, nCycles, runs, ended, error, sendVars, botVars>>

ProviderAddUserFor(users) ==
    /\ pc \in AwaitPcs
    /\ \E u \in users \ DOMAIN ACTIVE_USERS :
          ACTIVE_USERS' =
                [k \in DOMAIN ACTIVE_USERS \cup {u} |->
                    IF k = u THEN <<>> ELSE ACTIVE_USERS[k]]
    /\ UNCHANGED <<pc, IP_STREAKS, config_data, all_users_log, messages,
                   chunk_i, todo, user_name, calls, nCycles, runs, ended, error, sendVars, botVars>>

ProviderAddIp == ProviderAddIpFor(Users)

ProviderAddUser == ProviderAddUserFor(Users)

\* ------------------------------------------------- check_users_usage -----
\* lines 111..123: read_config() returns; check_ip_used, _update_ip_streaks,
\* _format_streak_messages and the chunking then run without an await, up
\* to the first send_logs of line 125
ReadConfig ==
    /\ pc = "read_config"
    /\ \E c \in Configs : config_data' = c
    /\ all_users_log' = check_ip_used(ACTIVE_USERS)
    /\ IP_STREAKS' = StreaksAfterCycle(IP_STREAKS, ACTIVE_USERS)
    /\ nCycles' = nCycles + 1
    /\ \E blocks \in format_streak_messages(IP_STREAKS') :
          messages' = WithSummary(blocks, total_ips(IP_STREAKS'))
    /\ chunk_i' = 1
    /\ pc' = "send_logs"
    /\ runs' = [u \in Users |-> [ip \in IPs |->
                  IF InActiveSet(ACTIVE_USERS, u, ip) THEN runs[u][ip] + 1 ELSE 0]]
    /\ ended' = LongestEnded(runs, ACTIVE_USERS)
    /\ UNCHANGED <<ACTIVE_USERS, todo, user_name, calls, error, sendVars, botVars>>

\* (mutant: the limits are read again from the store when the loop resumes)
ContinueLoop_Reread(remaining) ==
    \E c \in {k \in Configs : "GENERAL_LIMIT" \in DOMAIN k} :
        LET flagged == {u \in remaining : IsFlagged(c, u, IP_STREAKS[u])}
        IN  IF flagged # {}
            THEN /\ \E u \in flagged :
                       /\ user_name' = u
                       /\ todo' = remaining \ {u}
                 /\ pc' = "warn"
                 /\ ACTIVE_USERS' = ACTIVE_USERS
            ELSE /\ user_name' = user_name
                 /\ todo' = {}
                 /\ pc' = "returned"
                 /\ ACTIVE_USERS' = EmptyDict

\* (mutant: line 152 left out)
ContinueLoop_NoClear(remaining) ==
    LET flagged == {u \in remaining : IsFlagged(config_data, u, IP_STREAKS[u])}
    IN  IF flagged # {}
        THEN /\ \E u \in flagged :
                   /\ user_name' = u
                   /\ todo' = remaining \ {u}
             /\ pc' = "warn"
             /\ ACTIVE_USERS' = ACTIVE_USERS
        ELSE /\ user_name' = user_name
             /\ todo' = {}
             /\ pc' = "returned"
             /\ ACTIVE_USERS' = ACTIVE_USERS

\* lines 133..152, from the head of the loop over IP_STREAKS.items() to the
\* next await: the users that are exempt or within their limit are passed
\* over; at a flagged user the coroutine reaches the send_logs of line 144;
\* with no flagged user left the loop ends and line 152 clears ACTIVE_USERS
ContinueLoop(remaining) ==
    LET flagged == {u \in remaining : IsFlagged(config_data, u, IP_STREAKS[u])}
    IN  IF flagged # {}
        THEN /\ \E u \in flagged :
                   /\ user_name' = u
                   /\ todo' = remaining \ {u}
             /\ pc' = "warn"
             /\ ACTIVE_USERS' = ACTIVE_USERS
        ELSE /\ user_name' = user_name
             /\ todo' = {}
             /\ pc' = "returned"
             /\ ACTIVE_USERS' = EmptyDict

\* lines 124..125: await send_logs(chunk) returns.  After the last chunk,
\* lines 129..131 read the limits: config_data["GENERAL_LIMIT"] raises
\* KeyError when the key is missing, nothing catches it and the coroutine
\* ends; otherwise the loop of line 133 starts
SendLogs ==
    /\ pc = "send_logs"
    /\ chunk_i <= Len(shorter_messages(messages))
    /\ calls' = Append(calls, <<"report", Headers(shorter_messages(messages)[chunk_i])>>)
    /\ IF chunk_i < Len(shorter_messages(messages))
       THEN /\ chunk_i' = chunk_i + 1
            /\ UNCHANGED <<pc, messages, todo, user_name, ACTIVE_USERS, error>>
       ELSE /\ chunk_i' = 0
            /\ messages' = <<>>
            /\ IF Subscript(config_data, "GENERAL_LIMIT").raised
               THEN /\ pc' = "crashed"
                    /\ error' = KeyError("GENERAL_LIMIT")
                    /\ UNCHANGED <<todo, user_name, ACTIVE_USERS>>
               ELSE /\ ContinueLoop(DOMAIN IP_STREAKS)
                    /\ error' = error
    /\ UNCHANGED <<IP_STREAKS, config_data, all_users_log, nCycles, runs, ended, sendVars, botVars>>

\* (mutant: the warning is not sent before disable_user)
SendWarning_NotSent ==
    /\ pc = "warn"
    /\ pc' = "disable"
    /\ UNCHANGED <<ACTIVE_USERS, IP_STREAKS, config_data, all_users_log, messages,
                   chunk_i, todo, user_name, calls, nCycles, runs, ended, error,
                   sendVars, botVars>>

\* line 144: await send_logs("Warning: ...") returns
SendWarning ==
    /\ pc = "warn"
    /\ calls' = Append(calls, <<"warning", user_name>>)
    /\ pc' = "disable"
    /\ UNCHANGED <<ACTIVE_USERS, IP_STREAKS, config_data, all_users_log, messages,
                   chunk_i, todo, user_name, nCycles, runs, ended, error,
                   sendVars, botVars>>

\* the outcomes of disable_user: it returns, or it raises ValueError
DisableOutcomes == {"ok", "ValueError"}

\* (mutant: no except clause)
Caught_Nothing(outcome) == FALSE

\* line 147: except ValueError
Caught(outcome) == outcome = "ValueError"

\* lines 145..148: await disable_user(...) returns or raises; a caught
\* exception is printed and the loop goes on, another one ends the coroutine
DisableUser ==
    /\ pc = "disable"
    /\ \E outcome \in DisableOutcomes :
          /\ calls' = Append(calls, <<"disable_user", user_name, outcome>>)
          /\ IF outcome = "ok" \/ Caught(outcome)
             THEN /\ ContinueLoop(todo)
                  /\ error' = error
             ELSE /\ pc' = "crashed"
                  /\ error' = outcome
                  /\ UNCHANGED <<todo, user_name, ACTIVE_USERS>>
    /\ UNCHANGED <<IP_STREAKS, config_data, all_users_log, messages, chunk_i,
                   nCycles, runs, ended, sendVars, botVars>>

\* ---------------------------------------------- run_check_users_usage ----
\* line 158: check_users_usage has returned; its locals are gone
Return ==
    /\ pc = "returned"
    /\ pc' = "reload"
    /\ config_data' = EmptyDict
    /\ all_users_log' = EmptyDict
    /\ messages' = <<>>
    /\ chunk_i' = 0
    /\ todo' = {}
    /\ user_name' = ""
    /\ calls' = <<>>
    /\ ended' = 0
    /\ UNCHANGED <<ACTIVE_USERS, IP_STREAKS, nCycles, runs, error, sendVars, botVars>>

\* lines 159..160: data = await read_config(); data["CHECK_INTERVAL"] raises
\* KeyError when the key is missing
ReloadConfig ==
    /\ pc = "reload"
    /\ \E data \in Reloads :
          IF Subscript(data, "CHECK_INTERVAL").raised
          THEN pc' = "crashed" /\ error' = KeyError("CHECK_INTERVAL")
          ELSE pc' = "sleep" /\ error' = error
    /\ UNCHANGED <<ACTIVE_USERS, IP_STREAKS, config_data, all_users_log, messages,
                   chunk_i, todo, user_name, calls, nCycles, runs, ended,
                   sendVars, botVars>>

\* (mutant: the loop of line 157 runs its body once)
SleepWithin_Once(limit) ==
    /\ pc = "sleep"
    /\ nCycles < limit
    /\ pc' = "exited"
    /\ UNCHANGED <<ACTIVE_USERS, IP_STREAKS, config_data, all_users_log, messages,
                   chunk_i, todo, user_name, calls, nCycles, runs, ended,
                   error, sendVars, botVars>>

\* line 160 and line 157: the sleep is over, the next cycle starts (as long
\* as fewer than limit cycles have run)
SleepWithin(limit) ==
    /\ pc = "sleep"
    /\ nCycles < limit
    /\ pc' = "read_config"
    /\ UNCHANGED <<ACTIVE_USERS, IP_STREAKS, config_data, all_users_log, messages,
                   chunk_i, todo, user_name, calls, nCycles, runs, ended,
                   error, sendVars, botVars>>

Sleep == SleepWithin(MaxCycles)

Next ==
    \/ ProviderAddIp
    \/ ProviderAddUser
    \/ ReadConfig
    \/ SendLogs
    \/ SendWarning
    \/ DisableUser
    \/ Return
    \/ ReloadConfig
    \/ Sleep

Spec == Init /\ [][Next]_vars

\* SpecLive: the scheduler under fairness.  The event loop resumes the
\* coroutine once the call it awaits has completed, and read_config,
\* send_logs, disable_user and asyncio.sleep all complete: a step of the
\* coroutine that stays possible is taken.  The provider need not act; one
\* user has sessions.
LiveUsers == {"alice"}

SleepLive == SleepWithin(MaxLive)

Coroutine ==
    \/ ReadConfig
    \/ SendLogs
    \/ SendWarning
    \/ DisableUser
    \/ Return
    \/ ReloadConfig
    \/ SleepLive

NextLive ==
    \/ ProviderAddIpFor(LiveUsers)
    \/ ProviderAddUserFor(LiveUsers)
    \/ Coroutine

SpecLive == Init /\ [][NextLive]_vars /\ WF_vars(Coroutine)

\* SpecRetry: the cycles after a first cycle in which every user had both
\* IPs, the limit was 1 for all, nobody was exempt, and disable_user raised
\* ValueError for every user; check_users_usage has just returned
OverLimitConfig == [EXCEPT_USERS |-> {}, SPECIAL_LIMIT |-> EmptyDict,
                    GENERAL_LIMIT |-> 1]

InitRetry ==
    /\ pc = "returned"
    /\ ACTIVE_USERS = EmptyDict
    /\ all_users_log \in [Users -> SortedDesc([ip \in IPs |-> 1])]
    /\ IP_STREAKS = [u \in Users |-> [ip \in IPs |-> 1]]
    /\ config_data = OverLimitConfig
    /\ messages = <<>>
    /\ chunk_i = 0
    /\ todo = {}
    /\ \E blocks \in format_streak_messages(IP_STREAKS),
          order \in SortedDesc([u \in Users |-> 1]) :
          /\ calls = <<<<"report", Headers(WithSummary(blocks, total_ips(IP_STREAKS)))>>>>
                       \o Flatten([i \in 1..Len(order) |->
                                     <<<<"warning", order[i]>>,
                                       <<"disable_user", order[i], "ValueError">>>>])
          /\ user_name = order[Len(order)]
    /\ nCycles = 1
    /\ runs = [u \in Users |-> [ip \in IPs |-> 1]]
    /\ ended = 0
    /\ NoSend
    /\ NoBot

NextRetry ==
    \/ ProviderAddIp
    \/ ProviderAddUser
    \/ Coroutine

SpecRetry == InitRetry /\ [][NextRetry]_vars

\* SpecReappear: two cycles that follow MaxGone cycles in every one of which
\* alice had the IP 1.1.1.1 and nothing else was seen: its streak is MaxGone
GoneUser == "alice"

GoneIp == "1.1.1.1"

InitReappear ==
    /\ pc = "read_config"
    /\ ACTIVE_USERS = EmptyDict
    /\ IP_STREAKS = [u \in {GoneUser} |-> [ip \in {GoneIp} |-> MaxGone]]
    /\ nCycles = MaxGone
    /\ NoLocals
    /\ runs = [u \in Users |-> [ip \in IPs |->
                  IF u = GoneUser /\ ip = GoneIp THEN MaxGone ELSE 0]]
    /\ ended = 0
    /\ NoSend
    /\ NoBot

SleepReappear == SleepWithin(MaxGone + 2)

NextReappear ==
    \/ ProviderAddIp
    \/ ProviderAddUser
    \/ ReadConfig
    \/ SendLogs
    \/ SendWarning
    \/ DisableUser
    \/ Return
    \/ ReloadConfig
    \/ SleepReappear

SpecReappear == InitReappear /\ [][NextReappear]_vars

\* ------------------------------------ send_logs (telegram_bot/main.py) ----
\* the lists check_admin() can return: admin chat ids, none of them twice
AdminIds == 1..MaxAdmins

AdminLists ==
    UNION {{l \in [1..n -> AdminIds] : \A i, j \in 1..n : i # j => l[i] # l[j]} :
           n \in 0..MaxAdmins}

\* the outcomes of application.bot.sendMessage: it returns, or it raises an
\* exception of the class Exception
SendOutcomes == {"ok", "Exception"}

\* (mutant: only ValueError is caught)
CaughtInSendLogs_ValueError(outcome) == outcome = "ValueError"

\* line 102: except Exception
CaughtInSendLogs(outcome) == outcome = "Exception"

\* line 97: admins = await check_admin() returns, and the loop of line 98
\* starts
CheckAdmin ==
    /\ pc = "check_admin"
    /\ \E l \in AdminLists :
          /\ admins' = l
          /\ admin_i' = 1
          /\ pc' = IF l = <<>> THEN "sent" ELSE "sendMessage"
    /\ UNCHANGED <<ACTIVE_USERS, IP_STREAKS, config_data, all_users_log, messages,
                   chunk_i, todo, user_name, calls, nCycles, runs, ended, error,
                   botVars>>

\* lines 99..103: await sendMessage(chat_id=admin, ...) returns or raises; a
\* caught exception is printed and the loop goes on to the next admin,
\* another one leaves send_logs; after the last admin send_logs returns
SendMessage ==
    /\ pc = "sendMessage"
    /\ \E outcome \in SendOutcomes :
          /\ calls' = Append(calls, <<"sendMessage", admins[admin_i], outcome>>)
          /\ IF outcome = "ok" \/ CaughtInSendLogs(outcome)
             THEN /\ admin_i' = admin_i + 1
                  /\ pc' = IF admin_i < Len(admins) THEN "sendMessage" ELSE "sent"
                  /\ error' = error
             ELSE /\ admin_i' = admin_i
                  /\ pc' = "raised"
                  /\ error' = outcome
    /\ UNCHANGED <<ACTIVE_USERS, IP_STREAKS, config_data, all_users_log, messages,
                   chunk_i, todo, user_name, nCycles, runs, ended, admins,
                   botVars>>

\* SpecSendLogs: one call of send_logs
InitSendLogs ==
    /\ pc = "check_admin"
    /\ ACTIVE_USERS = EmptyDict
    /\ IP_STREAKS = EmptyDict
    /\ nCycles = 0
    /\ NoLocals
    /\ runs = NoRuns
    /\ ended = 0
    /\ NoSend
    /\ NoBot

NextSendLogs ==
    \/ CheckAdmin
    \/ SendMessage

SpecSendLogs == InitSendLogs /\ [][NextSendLogs]_vars

\* ------------------------------------- specifications of single steps ----
\* SpecSnapshot: one cycle's first step (lines 111..123) from a first
\* snapshot with raw lists of up to MaxRawList occurrences
RawLists == UNION {[1..n -> IPs] : n \in 0..MaxRawList}

InitSnapshot ==
    /\ pc = "read_config"
    /\ ACTIVE_USERS \in UNION {[D -> RawLists] : D \in SUBSET Users}
    /\ IP_STREAKS = EmptyDict
    /\ nCycles = 0
    /\ NoLocals
    /\ runs = NoRuns
    /\ ended = 0
    /\ NoSend
    /\ NoBot

NextSnapshot == ReadConfig

SpecSnapshot == InitSnapshot /\ [][NextSnapshot]_vars

\* SpecUpdate: the cycle's first step from every table that n streak updates
\* can have left (no streak above n; nothing at all for n = 0), n up to
\* MaxUpdates, and every snapshot of raw lists of up to MaxRaw occurrences
StreakMaps(n) == UNION {[D -> 1..n] : D \in SUBSET IPs}

Tables(n) ==
    IF n = 0 THEN {EmptyDict}
    ELSE UNION {[D -> StreakMaps(n)] : D \in SUBSET Users}

InitUpdate ==
    \E n \in 0..MaxUpdates :
        /\ pc = "read_config"
        /\ ACTIVE_USERS \in UNION {[D -> UNION {[1..k -> IPs] : k \in 0..MaxRaw}] :
                                    D \in SUBSET Users}
        /\ IP_STREAKS \in Tables(n)
        /\ nCycles = n
        /\ NoLocals
        /\ runs = [u \in Users |-> [ip \in IPs |->
                      IF HasKey(IP_STREAKS, u, ip) THEN IP_STREAKS[u][ip] ELSE 0]]
        /\ ended = 0
        /\ NoSend
        /\ NoBot

NextUpdate == ReadConfig

SpecUpdate == InitUpdate /\ [][NextUpdate]_vars

\* SpecPlurals: the cycle's first step when one IP of one user, active again,
\* reaches the streak n, for n up to MaxStreak
InitPlurals ==
    \E n \in 1..MaxStreak, u \in Users, ip \in IPs :
        /\ pc = "read_config"
        /\ ACTIVE_USERS = [k \in {u} |-> <<ip>>]
        /\ IP_STREAKS = IF n = 1 THEN EmptyDict
                        ELSE [k \in {u} |-> [i \in {ip} |-> n - 1]]
        /\ nCycles = n - 1
        /\ NoLocals
        /\ runs = [k \in Users |-> [i \in IPs |->
                      IF k = u /\ i = ip THEN n - 1 ELSE 0]]
        /\ ended = 0
        /\ NoSend
        /\ NoBot

NextPlurals == ReadConfig

SpecPlurals == InitPlurals /\ [][NextPlurals]_vars

\* SpecChunks: the dispatch of the report (lines 124..125) in the first
\* cycle, with n users (here named 1..n) of one active IP each, so that
\* _format_streak_messages has returned n blocks, for n up to MaxBlocks
OneIp == CHOOSE ip \in IPs : TRUE

InitChunks ==
    \E n \in 0..MaxBlocks :
        /\ pc = "send_logs"
        /\ ACTIVE_USERS = [u \in 1..n |-> <<OneIp>>]
        /\ all_users_log = [u \in 1..n |-> <<OneIp>>]
        /\ IP_STREAKS = [u \in 1..n |-> [ip \in {OneIp} |-> 1]]
        /\ nCycles = 1
        /\ config_data = [EXCEPT_USERS |-> {}, SPECIAL_LIMIT |-> EmptyDict,
                          GENERAL_LIMIT |-> 1]
        /\ messages = WithSummary(
                          [u \in 1..n |-> BlockOf(u, IP_STREAKS[u], <<OneIp>>)],
                          total_ips(IP_STREAKS))
        /\ chunk_i = 1
        /\ todo = {}
        /\ user_name = ""
        /\ calls = <<>>
        /\ runs = [u \in 1..n |-> [ip \in IPs |-> IF ip = OneIp THEN 1 ELSE 0]]
        /\ ended = 0
        /\ NoSend
        /\ NoBot

NextChunks == SendLogs

SpecChunks == InitChunks /\ [][NextChunks]_vars

\* ------------------------- command handlers (telegram_bot/main.py) --------
\* The application is built without concurrent_updates (line 69), so the
\* updates are handled one after the other: a handler is one step.  A
\* message text is a sequence of characters; the name of a command, such as
\* "/start", is one element of it.  The helpers of telegram_bot.utils are
\* not part of the sources at hand: they are modelled by what their callers
\* in main.py expect of them.

\* the chats that send messages to the bot (the chat id is the user's id)
Chats == {1, 2}

\* most conversations one chat has open at a time
MaxOpen == 1

\* d[k] = v
Put(d, k, v) == [x \in DOMAIN d \cup {k} |-> IF x = k THEN v ELSE d[x]]

\* str.strip(), str.lower() and int() on a text
Whitespace == {" "}

RECURSIVE LStrip(_)
LStrip(t) == IF t # <<>> /\ Head(t) \in Whitespace THEN LStrip(Tail(t)) ELSE t

RECURSIVE RStrip(_)
RStrip(t) ==
    IF t # <<>> /\ t[Len(t)] \in Whitespace
    THEN RStrip(SubSeq(t, 1, Len(t) - 1))
    ELSE t

strip(t) == RStrip(LStrip(t))

lower(t) ==
    [i \in 1..Len(t) |->
        CASE t[i] = "Y" -> "y"
          [] t[i] = "E" -> "e"
          [] t[i] = "S" -> "s"
          [] t[i] = "N" -> "n"
          [] t[i] = "O" -> "o"
          [] OTHER -> t[i]]

Digits == {"0", "1", "2", "3", "4", "5", "6", "7", "8", "9"}

DigitValue(c) ==
    CASE c = "0" -> 0 [] c = "1" -> 1 [] c = "2" -> 2 [] c = "3" -> 3
      [] c = "4" -> 4 [] c = "5" -> 5 [] c = "6" -> 6 [] c = "7" -> 7
      [] c = "8" -> 8 [] c = "9" -> 9

\* the digits of an integer literal: single underscores may separate them
IsDigits(t) ==
    /\ t # <<>>
    /\ t[1] \in Digits
    /\ t[Len(t)] \in Digits
    /\ \A i \in 1..Len(t) : t[i] \in Digits \cup {"_"}
    /\ \A i \in 1..(Len(t) - 1) : t[i] = "_" => t[i + 1] # "_"

RECURSIVE DigitsValue(_)
DigitsValue(t) ==
    IF t = <<>> THEN 0
    ELSE LET front == SubSeq(t, 1, Len(t) - 1)
         IN  IF t[Len(t)] = "_" THEN DigitsValue(front)
             ELSE 10 * DigitsValue(front) + DigitValue(t[Len(t)])

\* int(t): the value, or ValueError raised
int(t) ==
    LET s == strip(t)
        signed == s # <<>> /\ s[1] \in {"+", "-"}
        body == IF signed THEN Tail(s) ELSE s
    IN  IF IsDigits(body)
        THEN [raised |-> FALSE,
              value |-> IF signed /\ s[1] = "-" THEN 0 - DigitsValue(body)
                        ELSE DigitsValue(body)]
        ELSE [raised |-> TRUE, value |-> 0]

\* lines 46..62: the conversation states are the numbers of range(15);
\* ConversationHandler.END is -1
StateNumber(state) ==
    CASE state = "GET_DOMAIN" -> 0
      [] state = "GET_PORT" -> 1
      [] state = "GET_USERNAME" -> 2
      [] state = "GET_PASSWORD" -> 3
      [] state = "GET_CONFIRMATION" -> 4
      [] state = "GET_CHAT_ID" -> 5
      [] state = "GET_SPECIAL_LIMIT" -> 6
      [] state = "GET_LIMIT_NUMBER" -> 7
      [] state = "GET_CHAT_ID_TO_REMOVE" -> 8
      [] state = "SET_COUNTRY_CODE" -> 9
      [] state = "SET_EXCEPT_USERS" -> 10
      [] state = "REMOVE_EXCEPT_USER" -> 11
      [] state = "GET_GENERAL_LIMIT_NUMBER" -> 12
      [] state = "GET_CHECK_INTERVAL" -> 13
      [] state = "GET_TIME_TO_ACTIVE_USERS" -> 14
      [] state = "END" -> 0 - 1

\* (mutant: the gate tests `check is None`, the wrong way round)
Truthy_IsNone(ret) == ret = "None"

\* `if check:` on what check_admin_privilege returned: None and 0 are false
Truthy(ret) == ret # "None" /\ StateNumber(ret) # 0

\* ---- the helpers of telegram_bot.utils, as main.py uses them
\* check_admin(): the admin chat ids of config.json
check_admin(cfg) == Get(cfg, "ADMINS", {})

\* add_admin_to_config(id): adds the id unless it is an admin already, and
\* tells whether it added it
add_admin_to_config(cfg, id) ==
    [config |-> Put(cfg, "ADMINS", check_admin(cfg) \cup {id}),
     added |-> id \notin check_admin(cfg)]

\* remove_admin_from_config(id): removes the id, and tells whether it was
\* an admin
remove_admin_from_config(cfg, id) ==
    [config |-> IF id \in check_admin(cfg)
                THEN Put(cfg, "ADMINS", check_admin(cfg) \ {id}) ELSE cfg,
     removed |-> id \in check_admin(cfg)]

\* handel_special_limit(user, limit): sets the user's special limit and
\* returns whether the user had one, and the limit set
handel_special_limit(cfg, user, limit) ==
    [config |-> Put(cfg, "SPECIAL_LIMIT",
                    Put(Get(cfg, "SPECIAL_LIMIT", EmptyDict), user, limit)),
     out_put |-> <<user \in DOMAIN Get(cfg, "SPECIAL_LIMIT", EmptyDict), limit>>]

\* save_general_limit, save_check_interval, save_time_to_active_users
save_number(cfg, key, number) == Put(cfg, key, number)

\* add_base_information(domain, password, username): it saves the three, or
\* it raises ValueError when the panel does not accept them
BaseInformationOutcomes == {"ok", "ValueError"}

add_base_information(cfg, domain, password, username, outcome) ==
    IF outcome = "ok"
    THEN Put(Put(Put(cfg, "PANEL_DOMAIN", domain), "PANEL_USERNAME", username),
             "PANEL_PASSWORD", password)
    ELSE cfg

\* ---- the handlers
\* what a handler did: the value it returned, its replies, its calls of
\* helpers and config.json as it left it
Result(ret, replies, helper_calls, cfg) ==
    [ret |-> ret, replies |-> replies, helper_calls |-> helper_calls, config |-> cfg]

Call(helper, args) == [helper |-> helper, args |-> args]

\* lines 164..176: check_admin_privilege(update)
check_admin_privilege(chat, cfg) ==
    LET first == check_admin(cfg) = {}
        cfg2 == IF first THEN add_admin_to_config(cfg, chat).config ELSE cfg
        helper_calls == IF first THEN <<Call("add_admin_to_config", <<chat>>)>> ELSE <<>>
    IN  IF chat \notin check_admin(cfg2)
        THEN Result("END", <<"no permission">>, helper_calls, cfg2)
        ELSE Result("None", <<>>, helper_calls, cfg2)

\* lines 246..249: config.json exists and has the panel's domain, username
\* and password
Configured(cfg) ==
    /\ Get(cfg, "PANEL_DOMAIN", <<>>) # <<>>
    /\ Get(cfg, "PANEL_USERNAME", <<>>) # <<>>
    /\ Get(cfg, "PANEL_PASSWORD", <<>>) # <<>>

\* lines 230..235: start, after the gate
start(cfg) == Result("None", <<"START_MESSAGE">>, <<>>, cfg)

\* lines 238..270: create_config, after the gate
create_config(cfg) ==
    IF Configured(cfg)
    THEN Result("GET_CONFIRMATION",
                <<"configured before", "restart needed", "change? (yes/no)">>, <<>>, cfg)
    ELSE Result("GET_DOMAIN", <<"send panel address">>, <<>>, cfg)

\* the 5 of line 115
AdminLimit == 5

\* lines 107..123: add_admin, after the gate
add_admin(cfg) ==
    IF Cardinality(check_admin(cfg)) > AdminLimit
    THEN Result("END", <<"more than 5 admins">>, <<>>, cfg)
    ELSE Result("GET_CHAT_ID", <<"send chat id">>, <<>>, cfg)

\* lines 343..356: remove_admin, after the gate
remove_admin(cfg) ==
    Result("GET_CHAT_ID_TO_REMOVE",
           IF Cardinality(check_admin(cfg)) = 1
           THEN <<"only 1 admin left", "send chat id to remove">>
           ELSE <<"send chat id to remove">>,
           <<>>, cfg)

\* lines 148..161: admins_list, after the gate
admins_list(cfg) ==
    Result("END",
           IF check_admin(cfg) # {} THEN <<"admins">> ELSE <<"no admins">>, <<>>, cfg)

\* the entry points that ask for an input and return the state that takes
\* it (lines 179..189, 395..407, 433..441, 454..460, 494..500, 520..528,
\* 548..556), and those that show something (lines 380..392: None; 422..430:
\* None; 480..491: END)
Asks(cmd) ==
    CASE cmd = "/set_special_limit" -> "GET_SPECIAL_LIMIT"
      [] cmd = "/country_code" -> "SET_COUNTRY_CODE"
      [] cmd = "/set_except_user" -> "SET_EXCEPT_USERS"
      [] cmd = "/remove_except_user" -> "REMOVE_EXCEPT_USER"
      [] cmd = "/set_general_limit_number" -> "GET_GENERAL_LIMIT_NUMBER"
      [] cmd = "/set_check_interval" -> "GET_CHECK_INTERVAL"
      [] cmd = "/set_time_to_active_users" -> "GET_TIME_TO_ACTIVE_USERS"
      [] cmd = "/show_special_limit" -> "None"
      [] cmd = "/backup" -> "None"
      [] cmd = "/show_except_users" -> "END"

\* lines 578..726: the handlers in the order of application.add_handler;
\* a ConversationHandler is named by the command of its entry point, the
\* two MessageHandlers by their filters
HandlerOrder ==
    <<"/start", "/create_config", "/set_special_limit",
      "/set_time_to_active_users", "/set_check_interval",
      "/set_general_limit_number", "/remove_except_user", "/country_code",
      "/set_except_user", "/show_special_limit", "/add_admin", "/remove_admin",
      "/backup", "/admins_list", "/show_except_users", "TEXT", "COMMAND">>

ConvNames ==
    {"/create_config", "/set_special_limit", "/set_time_to_active_users",
     "/set_check_interval", "/set_general_limit_number", "/remove_except_user",
     "/country_code", "/set_except_user", "/show_special_limit", "/add_admin",
     "/remove_admin", "/backup"}

Commands == {HandlerOrder[i] : i \in 1..15}

\* the function of the entry point, after the gate
EntryBody(cmd, cfg) ==
    CASE cmd \in {"/start", "TEXT", "COMMAND"} -> start(cfg)
      [] cmd = "/create_config" -> create_config(cfg)
      [] cmd = "/add_admin" -> add_admin(cfg)
      [] cmd = "/remove_admin" -> remove_admin(cfg)
      [] cmd = "/admins_list" -> admins_list(cfg)
      [] OTHER -> Result(Asks(cmd), <<"asked or shown">>, <<>>, cfg)

\* `check = await check_admin_privilege(update); if check: return check`,
\* the first lines of every entry point, and then its body
Entry(chat, cmd, cfg) ==
    LET check == check_admin_privilege(chat, cfg)
        body == EntryBody(cmd, check.config)
    IN  IF Truthy(check.ret) THEN check
        ELSE Result(body.ret, check.replies \o body.replies,
                    check.helper_calls \o body.helper_calls, body.config)

\* the handler takes the update: a CommandHandler when the text starts with
\* its command, a ConversationHandler without a conversation of the chat
\* when its entry point does, one with a conversation when the handler of
\* the state does (all are MessageHandler(filters.TEXT): any text, commands
\* too), filters.TEXT any text and filters.COMMAND any command
Matches(h, chat, text) ==
    /\ text # <<>>
    /\ CASE h = "TEXT" -> TRUE
         [] h = "COMMAND" -> text[1] \in Commands \cup {"/"}
         [] h \in ConvNames /\ conversations[chat][h] # "None" -> TRUE
         [] OTHER -> text[1] = h

\* the first handler of the group that takes the update handles it
Dispatch(chat, text) ==
    LET first == CHOOSE i \in 1..Len(HandlerOrder) :
                    /\ Matches(HandlerOrder[i], chat, text)
                    /\ \A j \in 1..(i - 1) : ~Matches(HandlerOrder[j], chat, text)
    IN  HandlerOrder[first]

\* the state of a conversation after a handler returned: END ends it, None
\* leaves it as it is
NewState(state, ret) ==
    IF ret = "END" THEN "None" ELSE IF ret = "None" THEN state ELSE ret

OpenConversations(chat) ==
    Cardinality({h \in ConvNames : conversations[chat][h] # "None"})

\* the function that handles the update has run
Handled(chat, text, handler, conv, result) ==
    /\ update' = [chat |-> chat, text |-> text, handler |-> handler,
                  ret |-> result.ret, replies |-> result.replies,
                  helper_calls |-> result.helper_calls, before |-> config_json]
    /\ config_json' = result.config
    /\ conversations' =
          IF conv \in ConvNames
          THEN [conversations EXCEPT ![chat][conv] = NewState(@, result.ret)]
          ELSE conversations

\* a command, or a text that no conversation takes, reaches its entry point
\* (or start, through the two MessageHandlers of lines 723..726)
EntryPoint(chat, text) ==
    LET h == Dispatch(chat, text)
        result == Entry(chat, h, config_json)
    IN  /\ h \in ConvNames => conversations[chat][h] = "None"
        /\ (h \in ConvNames /\ result.ret \notin {"END", "None"}) =>
              OpenConversations(chat) < MaxOpen
        /\ Handled(chat, text, h, h, result)
        /\ received' =
              IF h = "/create_config" /\ ~Truthy(check_admin_privilege(chat, config_json).ret)
              THEN [received EXCEPT ![chat] =
                      <<[step |-> "create_config", text |-> text,
                         configured |-> Configured(result.config)]>>]
              ELSE received
        /\ UNCHANGED <<user_data, cycleVars>>

CommandFrom(commands) ==
    \E chat \in Chats, cmd \in commands : EntryPoint(chat, <<cmd>>)

UnknownTexts == {<<"x">>, <<"/", "x">>}

UnknownText == \E chat \in Chats, text \in UnknownTexts : EntryPoint(chat, text)

\* ---- the handlers of the conversation states: each gives the results it
\* can have, a result now also holding the chat's context.user_data
With(result, data) ==
    [ret |-> result.ret, replies |-> result.replies,
     helper_calls |-> result.helper_calls, config |-> result.config,
     user_data |-> data]

\* line 277: update.message.text.lower() in ["yes", "y"]
IsYes(text) == lower(text) \in {<<"y", "e", "s">>, <<"y">>}

\* lines 273..289
get_confirmation(text, cfg, data) ==
    IF IsYes(text)
    THEN {With(Result("GET_DOMAIN", <<"send panel address">>, <<>>, cfg), data)}
    ELSE {With(Result("END", <<"received, use /create_config">>, <<>>, cfg), data)}

\* lines 292..299
get_domain(text, cfg, data) ==
    {With(Result("GET_USERNAME", <<"send username">>, <<>>, cfg),
          Put(data, "domain", strip(text)))}

\* lines 302..309
get_username(text, cfg, data) ==
    {With(Result("GET_PASSWORD", <<"send password">>, <<>>, cfg),
          Put(data, "username", strip(text)))}

\* (mutant: the stored panel data is used when the chat sent none)
get_password_Stored(text, cfg, data) ==
    LET data2 == Put(data, "password", strip(text))
    IN  {With(Result("END", <<"please wait", "saved">>,
                     <<Call("add_base_information",
                            <<Get(cfg, "PANEL_DOMAIN", <<>>), data2["password"],
                              Get(cfg, "PANEL_USERNAME", <<>>)>>)>>,
                     add_base_information(cfg, Get(cfg, "PANEL_DOMAIN", <<>>),
                                          data2["password"],
                                          Get(cfg, "PANEL_USERNAME", <<>>), "ok")),
              data2)}

\* lines 312..340
get_password(text, cfg, data) ==
    LET data2 == Put(data, "password", strip(text))
    IN  {With(Result("END",
                     <<"please wait", IF outcome = "ok" THEN "saved" ELSE "problem">>,
                     <<Call("add_base_information",
                            <<data2["domain"], data2["password"], data2["username"]>>)>>,
                     add_base_information(cfg, data2["domain"], data2["password"],
                                          data2["username"], outcome)),
              data2) : outcome \in BaseInformationOutcomes}

\* lines 126..145: add_admin_to_config turns the text into the id and
\* raises ValueError when it is no integer
get_chat_id(text, cfg, data) ==
    LET new_admin_id == strip(text)
        id == int(new_admin_id)
        helper_calls == <<Call("add_admin_to_config", <<new_admin_id>>)>>
    IN  IF id.raised
        THEN {With(Result("END", <<"wrong input">>, helper_calls, cfg), data)}
        ELSE LET out == add_admin_to_config(cfg, id.value)
             IN  {With(Result("END",
                              IF out.added THEN <<"added">> ELSE <<"already exists">>,
                              helper_calls, out.config), data)}

\* lines 359..377
get_chat_id_to_remove(text, cfg, data) ==
    LET admin_id_to_remove == int(strip(text))
    IN  IF admin_id_to_remove.raised
        THEN {With(Result("END", <<"wrong input">>, <<>>, cfg), data)}
        ELSE LET out == remove_admin_from_config(cfg, admin_id_to_remove.value)
             IN  {With(Result("END",
                              IF out.removed THEN <<"removed">> ELSE <<"does not exist">>,
                              <<Call("remove_admin_from_config",
                                     <<admin_id_to_remove.value>>)>>,
                              out.config), data)}

\* lines 192..200
get_special_limit(text, cfg, data) ==
    {With(Result("GET_LIMIT_NUMBER", <<"send limit number">>, <<>>, cfg),
          Put(data, "selected_user", strip(text)))}

\* lines 203..227
get_limit_number(text, cfg, data) ==
    LET limit_number == int(strip(text))
    IN  IF limit_number.raised
        THEN {With(Result("END", <<"wrong input">>, <<>>, cfg), data)}
        ELSE LET data2 == Put(data, "limit_number", limit_number.value)
                 out == handel_special_limit(cfg, data2["selected_user"],
                                             data2["limit_number"])
             IN  {With(Result("END",
                              IF out.out_put[1] THEN <<"already has", "set">>
                              ELSE <<"set">>,
                              <<Call("handel_special_limit",
                                     <<data2["selected_user"], data2["limit_number"]>>)>>,
                              out.config), data2)}

\* (mutant: the number is saved before the text is checked)
SaveNumber_Unchecked(text, cfg, data, helper, key) ==
    LET number == int(strip(text))
    IN  {With(Result("END", IF number.raised THEN <<"wrong input">> ELSE <<"set">>,
                     <<Call(helper, <<number.value>>)>>,
                     save_number(cfg, key, number.value)), data)}

\* lines 503..517, 531..545, 559..575: the three handlers that save a number
SaveNumber(text, cfg, data, helper, key) ==
    LET number == int(strip(text))
    IN  IF number.raised
        THEN {With(Result("END", <<"wrong input">>, <<>>, cfg), data)}
        ELSE {With(Result("END", <<"set">>, <<Call(helper, <<number.value>>)>>,
                          save_number(cfg, key, number.value)), data)}

get_general_limit_number_handler(text, cfg, data) ==
    SaveNumber(text, cfg, data, "save_general_limit", "GENERAL_LIMIT")

get_check_interval_handler(text, cfg, data) ==
    SaveNumber(text, cfg, data, "save_check_interval", "CHECK_INTERVAL")

get_time_to_active_users_handler(text, cfg, data) ==
    SaveNumber(text, cfg, data, "save_time_to_active_users", "TIME_TO_ACTIVE_USERS")

\* the states={...} of the ConversationHandlers (lines 579..714): the
\* handler of a state
StateHandler(state, text, cfg, data) ==
    CASE state = "GET_CONFIRMATION" -> get_confirmation(text, cfg, data)
      [] state = "GET_DOMAIN" -> get_domain(text, cfg, data)
      [] state = "GET_USERNAME" -> get_username(text, cfg, data)
      [] state = "GET_PASSWORD" -> get_password(text, cfg, data)
      [] state = "GET_CHAT_ID" -> get_chat_id(text, cfg, data)
      [] state = "GET_CHAT_ID_TO_REMOVE" -> get_chat_id_to_remove(text, cfg, data)
      [] state = "GET_SPECIAL_LIMIT" -> get_special_limit(text, cfg, data)
      [] state = "GET_LIMIT_NUMBER" -> get_limit_number(text, cfg, data)
      [] state = "GET_GENERAL_LIMIT_NUMBER" ->
            get_general_limit_number_handler(text, cfg, data)
      [] state = "GET_CHECK_INTERVAL" -> get_check_interval_handler(text, cfg, data)
      [] state = "GET_TIME_TO_ACTIVE_USERS" ->
            get_time_to_active_users_handler(text, cfg, data)

\* the name of the function that handles a state
HandlerName(state) ==
    CASE state = "GET_CONFIRMATION" -> "get_confirmation"
      [] state = "GET_DOMAIN" -> "get_domain"
      [] state = "GET_USERNAME" -> "get_username"
      [] state = "GET_PASSWORD" -> "get_password"
      [] state = "GET_CHAT_ID" -> "get_chat_id"
      [] state = "GET_CHAT_ID_TO_REMOVE" -> "get_chat_id_to_remove"
      [] state = "GET_SPECIAL_LIMIT" -> "get_special_limit"
      [] state = "GET_LIMIT_NUMBER" -> "get_limit_number"
      [] state = "GET_GENERAL_LIMIT_NUMBER" -> "get_general_limit_number_handler"
      [] state = "GET_CHECK_INTERVAL" -> "get_check_interval_handler"
      [] state = "GET_TIME_TO_ACTIVE_USERS" -> "get_time_to_active_users_handler"

CreateConfigStates == {"GET_CONFIRMATION", "GET_DOMAIN", "GET_USERNAME", "GET_PASSWORD"}

\* a chat with a conversation in the state sends one of the texts, and the
\* handler of the state runs
StateStep(state, texts) ==
    \E chat \in Chats, text \in texts :
        LET h == Dispatch(chat, text)
        IN  /\ h \in ConvNames
            /\ conversations[chat][h] = state
            /\ \E result \in StateHandler(state, text, config_json, user_data[chat]) :
                  /\ Handled(chat, text, HandlerName(state), h, result)
                  /\ user_data' = [user_data EXCEPT ![chat] = result.user_data]
            /\ received' =
                  IF state \in CreateConfigStates
                  THEN [received EXCEPT ![chat] =
                          Append(@, [step |-> HandlerName(state), text |-> text])]
                  ELSE received
            /\ UNCHANGED cycleVars

\* ---- the texts the chats send
\* longest text sent to get_general_limit_number_handler
MaxText == 2

NumericAlphabet == {"1", "-", "+", " ", "_", "x"}

\* every text of up to MaxText characters of the alphabet, and a command
NumericTexts ==
    UNION {[1..k -> NumericAlphabet] : k \in 1..MaxText} \cup {<<"/start">>}

\* an integer, a padded one, a negative one, and texts that are none
LimitTexts == {<<"1">>, <<" ", "1", " ">>, <<"-", "1">>, <<"1", "x">>, <<" ">>}

IntervalTexts == {<<"1">>, <<"x">>, <<"/set_check_interval">>}

TimeTexts == {<<" ", "1">>, <<"1", " ", "1">>}

RemoveTexts == {<<"1">>, <<" ", "2">>, <<"-", "1">>, <<"x">>, <<"1", ".", "0">>}

ConfirmTexts ==
    {<<"y">>, <<"Y", "E", "S">>, <<"Y", "e", "s">>, <<"y", "e">>, <<" ", "y">>,
     <<"n", "o">>, <<"/create_config">>}

DomainTexts == {<<"d">>}

UsernameTexts == {<<" ", "u">>}

PasswordTexts == {<<"p", " ">>, <<"/start">>}

IdTexts == {<<"2">>, <<"6">>, <<" ", "7">>, <<"x">>}

NameTexts == {<<"u">>, <<" ", "v", " ">>}

GetConfirmation == StateStep("GET_CONFIRMATION", ConfirmTexts)

GetDomain == StateStep("GET_DOMAIN", DomainTexts)

GetUsername == StateStep("GET_USERNAME", UsernameTexts)

GetPassword == StateStep("GET_PASSWORD", PasswordTexts)

GetChatId == StateStep("GET_CHAT_ID", IdTexts)

GetChatIdToRemove == StateStep("GET_CHAT_ID_TO_REMOVE", RemoveTexts)

GetSpecialLimit == StateStep("GET_SPECIAL_LIMIT", NameTexts)

GetLimitNumber == StateStep("GET_LIMIT_NUMBER", LimitTexts)

GetGeneralLimitNumber == StateStep("GET_GENERAL_LIMIT_NUMBER", NumericTexts)

GetCheckInterval == StateStep("GET_CHECK_INTERVAL", IntervalTexts)

GetTimeToActiveUsers == StateStep("GET_TIME_TO_ACTIVE_USERS", TimeTexts)

\* the bot has started with one of the documents as config.json; the
\* coroutine of utils/check_usage.py has not started
InitBot(documents) ==
    /\ pc = "read_config"
    /\ ACTIVE_USERS = EmptyDict
    /\ IP_STREAKS = EmptyDict
    /\ nCycles = 0
    /\ NoLocals
    /\ runs = NoRuns
    /\ ended = 0
    /\ NoSend
    /\ config_json \in documents
    /\ conversations = [chat \in Chats |-> [h \in ConvNames |-> "None"]]
    /\ user_data = [chat \in Chats |-> EmptyDict]
    /\ update = EmptyDict
    /\ received = [chat \in Chats |-> <<>>]

\* SpecAdmins: the admin list and the gate of the entry points.  config.json
\* has no admin, one, or as many as add_admin accepts
AdminDocuments ==
    {EmptyDict, [ADMINS |-> {1}], [ADMINS |-> 1..AdminLimit]}

InitAdmins == InitBot(AdminDocuments)

NextAdmins ==
    \/ CommandFrom(Commands)
    \/ UnknownText
    \/ GetChatId
    \/ GetChatIdToRemove

SpecAdmins == InitAdmins /\ [][NextAdmins]_vars

\* SpecConfig: the create_config conversation of two admins, with and
\* without the panel's data in config.json
ConfigDocuments ==
    {[ADMINS |-> Chats],
     [ADMINS |-> Chats, PANEL_DOMAIN |-> <<"a">>, PANEL_USERNAME |-> <<"a">>],
     [ADMINS |-> Chats, PANEL_DOMAIN |-> <<"a">>, PANEL_USERNAME |-> <<"a">>,
      PANEL_PASSWORD |-> <<"a">>]}

InitConfig == InitBot(ConfigDocuments)

NextConfig ==
    \/ CommandFrom({"/create_config"})
    \/ GetConfirmation
    \/ GetDomain
    \/ GetUsername
    \/ GetPassword

SpecConfig == InitConfig /\ [][NextConfig]_vars

\* SpecNumeric: the conversations that take a number; chat 1 is an admin,
\* chat 2 is none
NumericCommands ==
    {"/set_special_limit", "/set_general_limit_number", "/set_check_interval",
     "/set_time_to_active_users", "/remove_admin"}

InitNumeric == InitBot({[ADMINS |-> {1, 5}]})

NextNumeric ==
    \/ CommandFrom(NumericCommands)
    \/ GetSpecialLimit
    \/ GetLimitNumber
    \/ GetGeneralLimitNumber
    \/ GetCheckInterval
    \/ GetTimeToActiveUsers
    \/ GetChatIdToRemove

SpecNumeric == InitNumeric /\ [][NextNumeric]_vars

\* ================================================================ claims ==
\* the positions of a cycle at which _update_ip_streaks has run
AfterUpdate == {"send_logs", "warn", "disable", "returned"}

Warned == {calls[i][2] : i \in {j \in 1..Len(calls) : calls[j][1] = "warning"}}

DisableInvoked == {calls[i][2] : i \in {j \in 1..Len(calls) : calls[j][1] = "disable_user"}}

\* the user's count of distinct active IPs in the snapshot this cycle read
ActiveCount(u) == Cardinality(ToSet(all_users_log[u]))

\* the effective limit: the override when the user has one, else the general one
EffectiveLimit(u) ==
    IF u \in DOMAIN config_data.SPECIAL_LIMIT
    THEN config_data.SPECIAL_LIMIT[u]
    ELSE config_data.GENERAL_LIMIT

\* C1: an IP that has been in the user's active set in the latest k >= 1
\* consecutive cycles has streak k; an IP that was not in the active set of
\* the latest cycle (its run, of whatever length, ended) is not a key of the
\* user's entry
C1_StreakIsRunLength ==
    \A u \in Users, ip \in IPs :
        /\ runs[u][ip] >= 1 =>
              HasKey(IP_STREAKS, u, ip) /\ IP_STREAKS[u][ip] = runs[u][ip]
        /\ runs[u][ip] = 0 => ~HasKey(IP_STREAKS, u, ip)

\* a cycle has just ended a run of two cycles: cycles 1..2 present, cycle 3 absent
C1_Witness ==
    /\ pc = "returned"
    /\ nCycles = 3
    /\ ended = 2
    /\ \E u \in Users, ip \in IPs : HasKey(IP_STREAKS, u, ip) /\ IP_STREAKS[u][ip] = 3

\* C2 (as claimed): after _update_ip_streaks a user whose active set is empty,
\* missing from the snapshot or present with an empty IP list, is not a key
\* of IP_STREAKS
C2_EmptyUserRemoved ==
    pc \in AfterUpdate =>
        \A u \in Users :
            (u \notin DOMAIN all_users_log \/ all_users_log[u] = <<>>)
                => u \notin DOMAIN IP_STREAKS

\* C2 (amended): after _update_ip_streaks a user missing from the snapshot is
\* not a key of IP_STREAKS; a user present with an empty IP list is a key
\* whose entry is empty
C2_EmptyUserHasNoIps ==
    pc \in AfterUpdate =>
        \A u \in Users :
            /\ u \notin DOMAIN all_users_log => u \notin DOMAIN IP_STREAKS
            /\ (u \in DOMAIN all_users_log /\ all_users_log[u] = <<>>)
                  => u \in DOMAIN IP_STREAKS /\ DOMAIN IP_STREAKS[u] = {}

\* alice had a streak before this cycle (bob's runs all go on), and is gone
\* from the snapshot
C2_Witness ==
    /\ pc = "returned"
    /\ ended >= 1
    /\ "alice" \notin DOMAIN all_users_log
    /\ "bob" \in DOMAIN all_users_log
    /\ \A ip \in IPs : runs["bob"][ip] = nCycles

\* C3: after _update_ip_streaks(current_active) the users of IP_STREAKS are
\* users of current_active, and the keys of each one's entry are the distinct
\* IPs of current_active[user]
C3_NoStaleEntry ==
    pc \in AfterUpdate =>
        \A u \in DOMAIN IP_STREAKS :
            /\ u \in DOMAIN all_users_log
            /\ DOMAIN IP_STREAKS[u] = ToSet(all_users_log[u])

\* a run has just been ended, and the table still holds a user with an IP
C3_Witness ==
    /\ pc = "send_logs"
    /\ ended >= 1
    /\ \E u \in DOMAIN IP_STREAKS : DOMAIN IP_STREAKS[u] # {}
                                      /\ DOMAIN IP_STREAKS[u] # IPs

\* C4: at the end of a cycle a non-exempt user of the snapshot has been
\* warned about and has had disable_user invoked if and only if the count of
\* the user's distinct active IPs is greater than the effective limit
C4_FlaggedIffOverLimit ==
    pc = "returned" =>
        \A u \in DOMAIN all_users_log \ config_data.EXCEPT_USERS :
            /\ u \in Warned <=> ActiveCount(u) > EffectiveLimit(u)
            /\ u \in DisableInvoked <=> ActiveCount(u) > EffectiveLimit(u)

\* alice, with an override of 2, has 2 active IPs and is not flagged; bob,
\* under the general limit of 1, has 2 active IPs and is flagged
C4_Witness ==
    /\ pc = "returned"
    /\ config_data.EXCEPT_USERS = {}
    /\ DOMAIN all_users_log = {"alice", "bob"}
    /\ ActiveCount("alice") = 2 /\ EffectiveLimit("alice") = 2
    /\ ActiveCount("bob") = 2 /\ EffectiveLimit("bob") = 1
    /\ Warned = {"bob"} /\ DisableInvoked = {"bob"}

\* C5: no warning is sent about and disable_user is never invoked for a user
\* of EXCEPT_USERS
C5_ExemptNeverFlagged ==
    /\ \A i \in 1..Len(calls) :
          calls[i][1] \in {"warning", "disable_user"}
              => calls[i][2] \notin config_data.EXCEPT_USERS
    /\ pc \in {"warn", "disable"} => user_name \notin config_data.EXCEPT_USERS

\* alice is exempt and over her limit; the cycle has ended
C5_Witness ==
    /\ pc = "returned"
    /\ config_data.EXCEPT_USERS = {"alice"}
    /\ "alice" \in DOMAIN all_users_log
    /\ ActiveCount("alice") > EffectiveLimit("alice")
    /\ "bob" \in DisableInvoked

DisableFailed ==
    \E i \in 1..Len(calls) : calls[i][1] = "disable_user" /\ calls[i][3] = "ValueError"

\* C6: once disable_user has failed in a cycle, the coroutine has not ended:
\* it is at the warning or the disable_user of a later flagged user, or the
\* cycle has ended with every flagged user's disable_user invoked and
\* ACTIVE_USERS cleared
C6_FailureDoesNotAbort ==
    DisableFailed =>
        /\ pc \in {"warn", "disable", "returned"}
        /\ pc = "returned" =>
              /\ ACTIVE_USERS = EmptyDict
              /\ \A u \in DOMAIN IP_STREAKS \ config_data.EXCEPT_USERS :
                    Cardinality(DOMAIN IP_STREAKS[u]) > EffectiveLimit(u)
                        => u \in DisableInvoked

\* the first disable_user of the cycle failed, the second was still invoked
C6_Witness ==
    /\ pc = "returned"
    /\ Len(calls) = 5
    /\ calls[3][1] = "disable_user" /\ calls[3][3] = "ValueError"
    /\ calls[5][1] = "disable_user"
    /\ calls[5][2] # calls[3][2]

\* C7: when check_users_usage returns, ACTIVE_USERS is empty and IP_STREAKS
\* holds, for every user that had active IPs in the snapshot the cycle read,
\* an entry with those IPs and their streaks
C7_SnapshotClearedStreaksKept ==
    pc = "returned" =>
        /\ ACTIVE_USERS = EmptyDict
        /\ \A u \in DOMAIN all_users_log :
              all_users_log[u] # <<>> =>
                  /\ u \in DOMAIN IP_STREAKS
                  /\ DOMAIN IP_STREAKS[u] = ToSet(all_users_log[u])
                  /\ \A ip \in DOMAIN IP_STREAKS[u] :
                        IP_STREAKS[u][ip] >= 1 /\ IP_STREAKS[u][ip] = runs[u][ip]

\* the second cycle has ended and the table holds streaks of 2
C7_Witness ==
    /\ pc = "returned"
    /\ nCycles = 2
    /\ DOMAIN IP_STREAKS = Users
    /\ \A u \in Users : DOMAIN IP_STREAKS[u] = IPs
                          /\ \A ip \in IPs : IP_STREAKS[u][ip] = 2

\* the chunks dispatched so far in this cycle, in the order of their dispatch
Dispatched ==
    LET idx == SelectSeq([i \in 1..Len(calls) |-> i], LAMBDA i : calls[i][1] = "report")
    IN  [k \in 1..Len(idx) |-> calls[idx[k]][2]]

\* the report blocks in a dispatched chunk (the summary line is no block)
BlocksIn(chunk) == Len(SelectSeq(chunk, LAMBDA h : "user" \in DOMAIN h))

\* the report of SpecChunks: the blocks of the users 1..n, then the summary
ExpectedReport ==
    LET n == Cardinality(DOMAIN IP_STREAKS)
    IN  [i \in 1..(n + 1) |-> IF i <= n THEN [user |-> i] ELSE [total |-> n]]

\* C8: the report (the blocks, then the summary line) is dispatched in order,
\* in chunks of at most 50 elements, all of exactly 50 except possibly the
\* last; with 120 report blocks there are exactly 3 dispatch calls, which
\* hold 50, 50 and 20 blocks
C8_ReportChunks ==
    LET D == Dispatched
        sent == Flatten(D)
    IN  /\ Len(sent) <= Len(ExpectedReport)
        /\ sent = SubSeq(ExpectedReport, 1, Len(sent))
        /\ \A k \in 1..Len(D) :
              /\ Len(D[k]) <= 50
              /\ Len(D[k]) >= 1
              /\ k < Len(D) => Len(D[k]) = 50
        /\ pc = "send_logs" => Len(sent) < Len(ExpectedReport)
                               /\ \A k \in 1..Len(D) : Len(D[k]) = 50
        /\ pc # "send_logs" => sent = ExpectedReport
        /\ (pc # "send_logs" /\ Cardinality(DOMAIN IP_STREAKS) = 120) =>
              /\ Len(D) = 3
              /\ BlocksIn(D[1]) = 50 /\ BlocksIn(D[2]) = 50 /\ BlocksIn(D[3]) = 20

\* the report of 120 blocks has been dispatched
C8_Witness ==
    /\ pc = "returned"
    /\ Cardinality(DOMAIN IP_STREAKS) = 120
    /\ Len(Dispatched) = 3

\* the index of the first occurrence of x in the list s
FirstIndex(s, x) == CHOOSE i \in 1..Len(s) : s[i] = x /\ \A j \in 1..(i - 1) : s[j] # x

\* d is the raw list with its duplicates removed, in first-occurrence order
IsDedupOf(d, raw) ==
    /\ ToSet(d) = ToSet(raw)
    /\ \A i, j \in 1..Len(d) :
          i < j => d[i] # d[j] /\ FirstIndex(raw, d[i]) < FirstIndex(raw, d[j])

\* C9: check_ip_used returns, for exactly the users of the snapshot, the raw
\* IP list with its duplicates removed, each distinct IP once and in the
\* order of its first occurrence; 3.3.3.3, 1.1.1.1, 3.3.3.3 gives
\* 3.3.3.3, 1.1.1.1
C9_DedupFirstOccurrence ==
    pc = "send_logs" =>
        /\ DOMAIN all_users_log = DOMAIN ACTIVE_USERS
        /\ \A u \in DOMAIN ACTIVE_USERS :
              /\ IsDedupOf(all_users_log[u], ACTIVE_USERS[u])
              /\ ACTIVE_USERS[u] = <<"3.3.3.3", "1.1.1.1", "3.3.3.3">>
                    => all_users_log[u] = <<"3.3.3.3", "1.1.1.1">>

\* a user's raw list 3.3.3.3, 1.1.1.1, 3.3.3.3 has been read
C9_Witness ==
    /\ pc = "send_logs"
    /\ \E u \in DOMAIN ACTIVE_USERS :
          /\ ACTIVE_USERS[u] = <<"3.3.3.3", "1.1.1.1", "3.3.3.3">>
          /\ Len(all_users_log[u]) = 2

\* the word form the rule of the claim gives for the count n
ExpectedForm(n) ==
    CASE n % 100 \in 11..14 -> "logov"
      [] n % 100 \notin 11..14 /\ n % 10 = 1 -> "log"
      [] n % 100 \notin 11..14 /\ n % 10 \in 2..4 -> "loga"
      [] OTHER -> "logov"

\* the forms the claim lists for 1, 2, 3, 4, 5, 11, 12, 21, 22, 101, 111, 112
ListedForms ==
    {<<1, "log">>, <<2, "loga">>, <<3, "loga">>, <<4, "loga">>, <<5, "logov">>,
     <<11, "logov">>, <<12, "logov">>, <<21, "log">>, <<22, "loga">>,
     <<101, "log">>, <<111, "logov">>, <<112, "logov">>}

\* the (streak, word) pairs of the lines of the report blocks
ReportLines ==
    UNION {{<<messages[b].lines[i].streak, messages[b].lines[i].word>> :
                i \in 1..Len(messages[b].lines)} :
           b \in {k \in 1..Len(messages) : messages[k].kind = "block"}}

\* C10: the word of every report line is the form the rule gives for the
\* line's streak count, and the listed counts have the listed forms
C10_PluralForms ==
    \A line \in ReportLines :
        /\ line[1] >= 1
        /\ line[2] = ExpectedForm(line[1])
        /\ \A listed \in ListedForms : listed[1] = line[1] => line[2] = listed[2]

\* a line with the streak 112 has been formatted
C10_Witness ==
    /\ pc = "send_logs"
    /\ <<112, "logov">> \in ReportLines

\* the blocks _format_streak_messages returned in this cycle: messages
\* without the summary line appended at line 120
ReturnedBlocks == SubSeq(messages, 1, Len(messages) - 1)

\* C11: _format_streak_messages returns blocks only, exactly one for every
\* user of the table with at least one IP and none for a user with none; the
\* blocks come by non-increasing count of IPs, a block's count and lines are
\* those of the user's entry, and the lines come by non-increasing streak;
\* an empty table gives no block
C11_FormatterBlocks ==
    pc = "send_logs" =>
        LET blocks == ReturnedBlocks
        IN  /\ \A i \in 1..Len(blocks) :
                  /\ blocks[i].kind = "block"
                  /\ blocks[i].user \in DOMAIN IP_STREAKS
                  /\ blocks[i].count = Cardinality(DOMAIN IP_STREAKS[blocks[i].user])
                  /\ Len(blocks[i].lines) = blocks[i].count
                  /\ {blocks[i].lines[k].ip : k \in 1..Len(blocks[i].lines)}
                        = DOMAIN IP_STREAKS[blocks[i].user]
                  /\ \A k \in 1..Len(blocks[i].lines) :
                        blocks[i].lines[k].streak
                            = IP_STREAKS[blocks[i].user][blocks[i].lines[k].ip]
                  /\ \A a, b \in 1..Len(blocks[i].lines) :
                        a < b => blocks[i].lines[a].streak >= blocks[i].lines[b].streak
            /\ \A u \in DOMAIN IP_STREAKS :
                  Cardinality({i \in 1..Len(blocks) : blocks[i].user = u})
                      = IF DOMAIN IP_STREAKS[u] # {} THEN 1 ELSE 0
            /\ \A i, j \in 1..Len(blocks) :
                  i < j => blocks[i].count >= blocks[j].count
            /\ IP_STREAKS = EmptyDict => blocks = <<>>

\* two blocks, of 2 IPs and of 1 IP, the first with the streaks 2 and 1
C11_Witness ==
    /\ pc = "send_logs"
    /\ Len(ReturnedBlocks) = 2
    /\ ReturnedBlocks[1].count = 2 /\ ReturnedBlocks[2].count = 1
    /\ ReturnedBlocks[1].lines[1].streak = 2
    /\ ReturnedBlocks[1].lines[2].streak = 1

\* the exceptions that end run_check_users_usage
KeyErrors == {KeyError("GENERAL_LIMIT"), KeyError("CHECK_INTERVAL")}

\* C12 (as claimed): whatever the configuration holds, a cycle under way is
\* followed by the start of another cycle
C12_AlwaysAnotherCycle ==
    (pc = "send_logs" /\ nCycles < MaxLive) ~> (pc = "read_config")

\* C12 (amended): nothing but a KeyError ends the coroutine, whatever the
\* outcomes of send_logs and disable_user; a cycle whose configuration holds
\* GENERAL_LIMIT returns and the configuration is reloaded; a reloaded
\* configuration with CHECK_INTERVAL is followed by the sleep and the start
\* of another cycle; without GENERAL_LIMIT the cycle, and without
\* CHECK_INTERVAL the reload, ends the coroutine with KeyError
C12_AnotherCycleUnlessKeyError ==
    /\ [](pc = "crashed" => error \in KeyErrors)
    /\ [](pc = "crashed" <=> error # "")
    /\ (pc = "send_logs" /\ "GENERAL_LIMIT" \in DOMAIN config_data)
          ~> (pc = "reload")
    /\ (pc = "send_logs" /\ "GENERAL_LIMIT" \notin DOMAIN config_data)
          ~> (error = KeyError("GENERAL_LIMIT"))
    /\ (pc = "reload") ~> (pc = "sleep" \/ error = KeyError("CHECK_INTERVAL"))
    /\ (pc = "sleep" /\ nCycles < MaxLive) ~> (pc = "read_config")

\* a second cycle is about to start, after a cycle in which a user had 2 IPs
C12_Witness ==
    /\ pc = "read_config"
    /\ nCycles = 1
    /\ \E u \in DOMAIN IP_STREAKS : DOMAIN IP_STREAKS[u] = IPs

\* C13: send_logs attempts the delivery to the admins in list order, one
\* attempt for each; whatever attempts failed, no exception leaves send_logs,
\* the loop is at the admin after the last one attempted, and when send_logs
\* returns every admin of the list has had an attempt
C13_EveryAdminAttempted ==
    /\ pc # "raised" /\ error = ""
    /\ Len(calls) <= Len(admins)
    /\ \A k \in 1..Len(calls) :
          calls[k][1] = "sendMessage" /\ calls[k][2] = admins[k]
    /\ pc = "sendMessage" => admin_i = Len(calls) + 1 /\ admin_i <= Len(admins)
    /\ pc = "sent" => Len(calls) = Len(admins)

\* the deliveries to the first two of three admins failed, the third was made
C13_Witness ==
    /\ pc = "sent"
    /\ Len(admins) = 3
    /\ calls[1][3] = "Exception" /\ calls[2][3] = "Exception"
    /\ calls[3] = <<"sendMessage", admins[3], "ok">>

\* C14: in a cycle disable_user is invoked at most once for a user; and in
\* the cycle after one in which disable_user failed for every user, a user
\* that is again not exempt and over the limit has disable_user invoked
\* again, and a user that is not has not
C14_RetriedByNextCycleOnly ==
    /\ \A i, j \in 1..Len(calls) :
          (i < j /\ calls[i][1] = "disable_user" /\ calls[j][1] = "disable_user")
              => calls[i][2] # calls[j][2]
    /\ (pc = "returned" /\ nCycles = 2) =>
          \A u \in Users :
              u \in DisableInvoked
                  <=> /\ u \in DOMAIN all_users_log
                      /\ u \notin config_data.EXCEPT_USERS
                      /\ ActiveCount(u) > EffectiveLimit(u)

\* in the second cycle alice is over the limit again and bob is not:
\* disable_user was invoked again for alice only, and returned
C14_Witness ==
    /\ pc = "returned"
    /\ nCycles = 2
    /\ runs["alice"] = [ip \in IPs |-> 2]
    /\ "bob" \in DOMAIN all_users_log /\ ActiveCount("bob") = 1
    /\ calls[Len(calls)] = <<"disable_user", "alice", "ok">>
    /\ DisableInvoked = {"alice"}

\* the positions inside check_users_usage after the configuration was loaded
InCycle == {"send_logs", "warn", "disable"}

\* C15: no step taken inside a cycle changes the configuration loaded at
\* line 111, neither a step of the coroutine nor a write of the provider
\* (EXCEPT_USERS, SPECIAL_LIMIT and GENERAL_LIMIT stay as loaded until
\* check_users_usage returns or raises); the reload of line 159 does not
\* reach it; and a user is passed to the warning and to disable_user only
\* when flagged under that configuration
C15_ConfigNotMutated ==
    [][/\ pc \in InCycle => config_data' = config_data
       /\ pc = "reload" => config_data' = config_data
       /\ pc' \in {"warn", "disable"} =>
             /\ user_name' \notin config_data'.EXCEPT_USERS
             /\ Cardinality(DOMAIN IP_STREAKS'[user_name'])
                   > (IF user_name' \in DOMAIN config_data'.SPECIAL_LIMIT
                      THEN config_data'.SPECIAL_LIMIT[user_name']
                      ELSE config_data'.GENERAL_LIMIT)]_vars

\* in the second cycle the loop, resumed after bob's disable_user, is at
\* the disable_user of alice, under the general limit of 1 loaded at the
\* start of this cycle
C15_Witness ==
    /\ pc = "disable"
    /\ nCycles = 2
    /\ user_name = "alice"
    /\ DisableInvoked = {"bob"}
    /\ config_data.SPECIAL_LIMIT = EmptyDict
    /\ config_data.GENERAL_LIMIT = 1

\* C16: the IP that had the streak MaxGone and was missing from the user's
\* active set in the next cycle (the user present without it, or missing
\* from the snapshot) is then no key of the user's entry, with no streak of
\* zero left behind; when it is back in the cycle after, its streak at the
\* end of that cycle is 1
C16_ReappearsWithStreakOne ==
    /\ \A u \in DOMAIN IP_STREAKS : \A ip \in DOMAIN IP_STREAKS[u] :
          IP_STREAKS[u][ip] # 0
    /\ (nCycles > MaxGone /\ runs[GoneUser][GoneIp] = 0)
          => ~HasKey(IP_STREAKS, GoneUser, GoneIp)
    /\ (nCycles = MaxGone + 2 /\ runs[GoneUser][GoneIp] = 1)
          => /\ HasKey(IP_STREAKS, GoneUser, GoneIp)
             /\ IP_STREAKS[GoneUser][GoneIp] = 1

\* the cycle after the IP's removal has returned, and the IP is back
C16_Witness ==
    /\ pc = "returned"
    /\ nCycles = MaxGone + 2
    /\ runs[GoneUser][GoneIp] = 1
    /\ IP_STREAKS[GoneUser][GoneIp] = 1

\* the occurrences of ip in the raw list
Occurrences(raw, ip) == Cardinality({i \in 1..Len(raw) : raw[i] = ip})

\* C17: every streak stored in IP_STREAKS is at least 1 and at most the
\* number of streak updates that have run; and after an update the streak of
\* every IP of a user's raw list, however often it occurs there, is the
\* streak it had before (runs before the update; 0 when it had none) plus 1
C17_StreakBoundedRaisedByOne ==
    /\ \A u \in DOMAIN IP_STREAKS : \A ip \in DOMAIN IP_STREAKS[u] :
          1 <= IP_STREAKS[u][ip] /\ IP_STREAKS[u][ip] <= nCycles
    /\ pc = "send_logs" =>
          \A u \in DOMAIN ACTIVE_USERS : \A ip \in ToSet(ACTIVE_USERS[u]) :
              /\ HasKey(IP_STREAKS, u, ip)
              /\ IP_STREAKS[u][ip] = runs[u][ip]

\* an IP that had the streak 2 occurs twice in the raw list and has streak 3
C17_Witness ==
    /\ pc = "send_logs"
    /\ nCycles = 3
    /\ \E u \in DOMAIN ACTIVE_USERS, ip \in IPs :
          /\ Occurrences(ACTIVE_USERS[u], ip) = 2
          /\ IP_STREAKS[u][ip] = 3

\* the snapshot this cycle read is still in ACTIVE_USERS (the provider may
\* have added to it since)
SnapshotKept ==
    \A u \in DOMAIN all_users_log :
        /\ u \in DOMAIN ACTIVE_USERS
        /\ ToSet(all_users_log[u]) \subseteq ToSet(ACTIVE_USERS[u])

\* IP_STREAKS holds the result of this cycle's streak update
TableUpdated ==
    /\ DOMAIN IP_STREAKS = DOMAIN all_users_log
    /\ \A u \in DOMAIN IP_STREAKS :
          /\ DOMAIN IP_STREAKS[u] = ToSet(all_users_log[u])
          /\ \A ip \in DOMAIN IP_STREAKS[u] : IP_STREAKS[u][ip] = runs[u][ip]

\* the last element dispatched so far
LastDispatched ==
    Dispatched[Len(Dispatched)][Len(Dispatched[Len(Dispatched)])]

\* C18: the calls of a cycle are made in this order: the report chunks,
\* then for each flagged user the warning followed at once by that user's
\* disable_user; when the first call is made the streak table is already
\* updated; the first warning comes after the chunk that ends with the
\* summary line; and ACTIVE_USERS is not cleared before the loop has ended,
\* when no user is left to evaluate
C18_OrderOfSteps ==
    /\ \A i \in 1..Len(calls) :
          /\ calls[i][1] \in {"report", "warning", "disable_user"}
          /\ calls[i][1] = "report" =>
                \A j \in 1..(i - 1) : calls[j][1] = "report"
          /\ calls[i][1] = "disable_user" =>
                i > 1 /\ calls[i - 1] = <<"warning", calls[i][2]>>
          /\ calls[i][1] = "warning" =>
                IF i = Len(calls)
                THEN pc = "disable" /\ user_name = calls[i][2]
                ELSE calls[i + 1][1] = "disable_user" /\ calls[i + 1][2] = calls[i][2]
    /\ (pc = "send_logs" \/ calls # <<>>) => TableUpdated
    /\ pc \in {"warn", "disable", "returned"} =>
          /\ Len(Dispatched) >= 1
          /\ "total" \in DOMAIN LastDispatched
    /\ pc = "disable" => calls[Len(calls)] = <<"warning", user_name>>
    /\ pc \in InCycle => SnapshotKept
    /\ pc = "returned" => todo = {} /\ ACTIVE_USERS = EmptyDict

\* the second cycle has returned after the report, and a warning and a
\* disable_user for each of the two users
C18_Witness ==
    /\ pc = "returned"
    /\ nCycles = 2
    /\ Len(calls) = 5
    /\ calls[1][1] = "report"
    /\ calls[2][1] = "warning" /\ calls[3][1] = "disable_user"
    /\ calls[4][1] = "warning" /\ calls[5][1] = "disable_user"
    /\ {calls[3][2], calls[5][2]} = Users

\* the (user, ip) pairs of this cycle's snapshot
SnapshotPairs ==
    UNION {{<<u, ip>> : ip \in ToSet(all_users_log[u])} : u \in DOMAIN all_users_log}

\* the report of this cycle has been dispatched whole
ReportDone ==
    \/ pc \in {"warn", "disable", "returned"}
    \/ pc = "crashed" /\ error = KeyError("GENERAL_LIMIT")

\* C19: the report of every cycle ends with the summary line, whose total
\* is the number of (user, ip) pairs of the streak table, which is the
\* number of distinct (user, ip) pairs of this cycle's snapshot; so every
\* cycle dispatches at least one chunk, also with an empty snapshot
C19_SummaryLineLast ==
    /\ pc = "send_logs" =>
          /\ Len(messages) >= 1
          /\ messages[Len(messages)] =
                [kind |-> "summary", total |-> total_ips(IP_STREAKS)]
          /\ \A i \in 1..(Len(messages) - 1) : messages[i].kind = "block"
          /\ total_ips(IP_STREAKS) = Cardinality(SnapshotPairs)
    /\ ReportDone =>
          /\ Len(Dispatched) >= 1
          /\ \A k \in 1..Len(Dispatched) : Len(Dispatched[k]) >= 1
          /\ LastDispatched = [total |-> total_ips(IP_STREAKS)]
          /\ total_ips(IP_STREAKS) = Cardinality(SnapshotPairs)
          /\ \A k \in 1..Len(Dispatched) : \A i \in 1..Len(Dispatched[k]) :
                (k # Len(Dispatched) \/ i # Len(Dispatched[k]))
                    => "user" \in DOMAIN Dispatched[k][i]

\* the second cycle read an empty snapshot after a first cycle that had
\* streaks, and its report was the summary line alone, with total 0
C19_Witness ==
    /\ pc = "returned"
    /\ nCycles = 2
    /\ all_users_log = EmptyDict
    /\ IP_STREAKS = EmptyDict
    /\ calls = <<<<"report", <<[total |-> 0]>>>>>>

\* C20: without GENERAL_LIMIT in the configuration read the cycle ends in a
\* KeyError at line 131 and never evaluates a user: no warning and no
\* disable_user in that cycle, also for a user over a SPECIAL_LIMIT
\* override; the streak table is updated, the report dispatched whole and
\* ACTIVE_USERS still holds the snapshot
C20_MissingGeneralLimit ==
    /\ (pc \in InCycle /\ "GENERAL_LIMIT" \notin DOMAIN config_data) => pc = "send_logs"
    /\ (pc = "returned") => "GENERAL_LIMIT" \in DOMAIN config_data
    /\ (pc = "crashed" /\ error = KeyError("GENERAL_LIMIT")) =>
          /\ "GENERAL_LIMIT" \notin DOMAIN config_data
          /\ Warned = {} /\ DisableInvoked = {}
          /\ Len(Dispatched) >= 1
          /\ Len(calls) = Len(Dispatched)
          /\ "total" \in DOMAIN LastDispatched
          /\ TableUpdated
          /\ SnapshotKept
          /\ DOMAIN all_users_log # {} => ACTIVE_USERS # EmptyDict

\* the cycle failed at line 131 with alice, not exempt, having two active
\* IPs over her SPECIAL_LIMIT override of 1
C20_Witness ==
    /\ pc = "crashed"
    /\ error = KeyError("GENERAL_LIMIT")
    /\ config_data.SPECIAL_LIMIT = [alice |-> 1]
    /\ config_data.EXCEPT_USERS = {}
    /\ "alice" \in DOMAIN IP_STREAKS
    /\ Cardinality(DOMAIN IP_STREAKS["alice"]) = 2
    /\ calls # <<>>

\* the (user, ip) pairs in ACTIVE_USERS
ActivePairs(active_users) ==
    UNION {{<<u, ip>> : ip \in ToSet(active_users[u])} : u \in DOMAIN active_users}

\* C21: no observation is lost: every IP that a step removes from
\* ACTIVE_USERS (the clear of line 152 is the only such step) is in the
\* current-active mapping that check_ip_used returned in this cycle, also
\* when the provider wrote it while the cycle was suspended at an await
C21_NoObservationLost ==
    [][ActivePairs(ACTIVE_USERS) \ ActivePairs(ACTIVE_USERS')
            \subseteq SnapshotPairs]_vars

\* the update handled last went to an entry point (a command, or start
\* through the MessageHandlers)
AtEntry == "handler" \in DOMAIN update /\ update.handler \in Commands \cup {"TEXT", "COMMAND"}

\* the update handled last went to the handler of a conversation state
AtState(handler) == "handler" \in DOMAIN update /\ update.handler = handler

\* the entry points that ask for an input
Asking ==
    {"/create_config", "/set_special_limit", "/set_time_to_active_users",
     "/set_check_interval", "/set_general_limit_number", "/remove_except_user",
     "/country_code", "/set_except_user", "/add_admin", "/remove_admin"}

C23_AdminListBounded ==
    /\ (AtEntry /\ update.handler = "/add_admin"
            /\ update.chat \in check_admin(update.before)) =>
          /\ config_json = update.before
          /\ IF Cardinality(check_admin(update.before)) > 5
             THEN /\ update.ret = "END"
                  /\ conversations[update.chat]["/add_admin"] = "None"
                  /\ update.replies = <<"more than 5 admins">>
             ELSE /\ update.ret = "GET_CHAT_ID"
                  /\ conversations[update.chat]["/add_admin"] = "GET_CHAT_ID"
    /\ (AtState("get_chat_id") /\ ~int(update.text).raised) =>
          /\ check_admin(config_json) =
                check_admin(update.before) \cup {int(update.text).value}
          /\ update.replies =
                IF int(update.text).value \in check_admin(update.before)
                THEN <<"already exists">> ELSE <<"added">>
    /\ Cardinality(check_admin(config_json)) <= 6

\* the answers yes and y, in any case
YesAnswers ==
    {<<y>> : y \in {"y", "Y"}}
    \cup {<<y, e, z>> : y \in {"y", "Y"}, e \in {"e", "E"}, z \in {"s", "S"}}

\* the steps of the chat's latest create_config conversation
Steps(chat) == [i \in 1..Len(received[chat]) |-> received[chat][i].step]

IsPrefix(a, b) == Len(a) <= Len(b) /\ a = SubSeq(b, 1, Len(a))

\* C24: a create_config conversation takes the domain, the username and
\* the password in this order, after the confirmation when config.json
\* already holds the three; add_base_information is called by get_password
\* alone, with the three texts received in this conversation; with a
\* complete configuration the conversation is at GET_DOMAIN or beyond only
\* after an answer of yes or y in any case, and any other answer ends the
\* conversation: no helper is called and config.json is unchanged
C24_CreateConfigOrder ==
    /\ \A chat \in Chats :
          LET r == received[chat]
          IN  /\ r # <<>> =>
                    /\ r[1].step = "create_config"
                    /\ IsPrefix(Steps(chat),
                                IF r[1].configured
                                THEN <<"create_config", "get_confirmation", "get_domain",
                                       "get_username", "get_password">>
                                ELSE <<"create_config", "get_domain", "get_username",
                                       "get_password">>)
                    /\ (r[1].configured /\ Len(r) >= 3) => r[2].text \in YesAnswers
              /\ conversations[chat]["/create_config"]
                        \in {"GET_DOMAIN", "GET_USERNAME", "GET_PASSWORD"} =>
                    /\ r # <<>>
                    /\ r[1].configured =>
                          /\ Len(r) >= 2
                          /\ r[2].step = "get_confirmation"
                          /\ r[2].text \in YesAnswers
    /\ AtState("get_password") =>
          LET r == received[update.chat]
              n == Len(r)
          IN  /\ n >= 4
              /\ <<r[n - 2].step, r[n - 1].step, r[n].step>>
                    = <<"get_domain", "get_username", "get_password">>
              /\ update.helper_calls =
                    <<Call("add_base_information",
                           <<strip(r[n - 2].text), strip(r[n].text),
                             strip(r[n - 1].text)>>)>>
              /\ update.ret = "END"
    /\ ("handler" \in DOMAIN update /\ update.handler # "get_password") =>
          /\ \A i \in 1..Len(update.helper_calls) :
                update.helper_calls[i].helper # "add_base_information"
          /\ Configured(update.before) = Configured(config_json)
    /\ (AtState("get_confirmation") /\ update.text \notin YesAnswers) =>
          /\ update.ret = "END"
          /\ conversations[update.chat]["/create_config"] = "None"
          /\ update.helper_calls = <<>>
          /\ config_json = update.before

\* get_password has called add_base_information at the end of a
\* conversation that began with the confirmation of a chat, while the
\* other chat has a create_config conversation of its own under way
C24_Witness ==
    /\ AtState("get_password")
    /\ Len(received[update.chat]) = 5
    /\ received[update.chat][2].text = <<"Y", "E", "S">>
    /\ update.replies = <<"please wait", "saved">>
    /\ \E chat \in Chats \ {update.chat} :
          conversations[chat]["/create_config"] = "GET_USERNAME"

\* the handlers that take a number, and the helper each calls
NumericHandlers ==
    {"get_limit_number", "get_general_limit_number_handler",
     "get_check_interval_handler", "get_time_to_active_users_handler",
     "get_chat_id_to_remove"}

HelperOf(handler) ==
    CASE handler = "get_limit_number" -> "handel_special_limit"
      [] handler = "get_general_limit_number_handler" -> "save_general_limit"
      [] handler = "get_check_interval_handler" -> "save_check_interval"
      [] handler = "get_time_to_active_users_handler" -> "save_time_to_active_users"
      [] handler = "get_chat_id_to_remove" -> "remove_admin_from_config"

ConversationOf(handler) ==
    CASE handler = "get_limit_number" -> "/set_special_limit"
      [] handler = "get_general_limit_number_handler" -> "/set_general_limit_number"
      [] handler = "get_check_interval_handler" -> "/set_check_interval"
      [] handler = "get_time_to_active_users_handler" -> "/set_time_to_active_users"
      [] handler = "get_chat_id_to_remove" -> "/remove_admin"

\* C25: a handler that takes a number ends the conversation in either
\* case; when the text is no integer it calls no helper and config.json
\* is unchanged, and when it is one it calls its helper exactly once, with
\* that integer (get_limit_number: with the selected user and that integer)
C25_NumericInput ==
    ("handler" \in DOMAIN update /\ update.handler \in NumericHandlers) =>
        LET number == int(update.text)
        IN  /\ update.ret = "END"
            /\ conversations[update.chat][ConversationOf(update.handler)] = "None"
            /\ IF number.raised
               THEN /\ update.helper_calls = <<>>
                    /\ config_json = update.before
                    /\ update.replies = <<"wrong input">>
               ELSE /\ Len(update.helper_calls) = 1
                    /\ update.helper_calls[1].helper = HelperOf(update.handler)
                    /\ update.helper_calls[1].args =
                          IF update.handler = "get_limit_number"
                          THEN <<user_data[update.chat]["selected_user"], number.value>>
                          ELSE <<number.value>>
                    /\ update.replies # <<"wrong input">>

\* the text "-1" was sent as the general limit, and save_general_limit was
\* called with -1; before that a text that is no integer had ended a
\* set_check_interval conversation, so CHECK_INTERVAL is not set
C25_Witness ==
    /\ "handler" \in DOMAIN update
    /\ update.handler = "get_general_limit_number_handler"
    /\ update.text = <<"-", "1">>
    /\ update.helper_calls = <<Call("save_general_limit", <<0 - 1>>)>>
    /\ "CHECK_INTERVAL" \notin DOMAIN config_json
    /\ "TIME_TO_ACTIVE_USERS" \in DOMAIN config_json

====
